---- MODULE Spec2Model ----
(***************************************************************************)
(* LocalGeometryMXH (pyrokinetics/local_geometry/mxh.py): the Miller       *)
(* eXtended Harmonic flux-surface object, its fit (_set_shape_coefficients)*)
(* and its accessors, as a state machine.                                  *)
(*                                                                         *)
(* Numbers.  The code computes in floating point with sin, cos, arcsin and *)
(* arccos.  The model computes exactly on the sub-domain where every value *)
(* the code produces is an integer:                                        *)
(*   - angles (theta, thetaR, cn, sn) are integers counting quarter turns  *)
(*     (pi/2), so pi is 2 and cos/sin of an angle are -1, 0 or 1;           *)
(*   - every other quantity (R, Z, kappa, shift, dcndr, ...) is an integer;*)
(*   - a value a + b*(pi/2) that mixes both (the theta derivatives of      *)
(*     thetaR and of R) is the pair <<a, b>>.                              *)
(* Python's v[k] (0-based) is v[k+1] here; At and Put do the translation.  *)
(*                                                                         *)
(* Specifications.  Spec is the fit: calls of _set_shape_coefficients, one *)
(* after another on one object, each split where least_squares is called  *)
(* (FitCall, then SolverReturn), with the solver's residual evaluations in *)
(* between.  SpecUse is the object in use between fits: the accessors and  *)
(* the property setters, on an object as constructed or as a completed fit *)
(* left it.  SpecCalc applies single computations of the fit to inputs the *)
(* other two do not cover (the moments of a given series, a contour outside*)
(* the domain of arccos, R_upper on arbitrary heights, the clamps on values*)
(* near 1 counted in units of 1e-9) and records the result in out.         *)
(* SpecDefaults is default_mxh_inputs and the constructor over a heap of   *)
(* arrays, where dictionaries and objects hold references.                 *)
(* SpecEval is the object with only its evaluation methods called.         *)
(* SpecShaping is the delta and s_delta properties on triangularities      *)
(* strictly between -1 and 1, counted in fifths.  SpecCompare is the       *)
(* comparison helper of tests/equilibrium/test_equilibrium.py.             *)
(***************************************************************************)
EXTENDS Integers, Sequences, FiniteSets, TLC

\* ------------------------------------------------------------- numbers

\* n_moments property: the harmonic truncation order.
n_moments == 4

\* n property: np.linspace(0, n_moments - 1, n_moments) = [0, 1, 2, 3].
n == [k \in 1..n_moments |-> k - 1]

\* np.pi, in quarter turns.
Pi == 2

\* np.cos / np.sin of an angle given in quarter turns.
Cos(q) == <<1, 0, -1, 0>>[(q % 4) + 1]

Sin(q) == <<0, 1, 0, -1>>[(q % 4) + 1]

\* np.arcsin on {-1, 0, 1}: the angle in [-pi/2, pi/2], in quarter turns.
arcsin(h) == CASE h = 1 -> 1
               [] h = 0 -> 0
               [] h = -1 -> -1

\* np.arccos on {-1, 0, 1}: the angle in [0, pi], in quarter turns.
arccos(x) == CASE x = 1 -> 0
               [] x = 0 -> 1
               [] x = -1 -> 2

Abs(x) == IF x < 0 THEN -x ELSE x

\* np.sum over the moments: s[1] + ... + s[k].
RECURSIVE SumTo(_, _)
SumTo(s, k) == IF k = 0 THEN 0 ELSE SumTo(s, k - 1) + s[k]

\* Python's built-in max / min of an array.
Max(s) == CHOOSE x \in {s[i] : i \in 1..Len(s)} : \A i \in 1..Len(s) : s[i] <= x

Min(s) == CHOOSE x \in {s[i] : i \in 1..Len(s)} : \A i \in 1..Len(s) : x <= s[i]

\* np.argmax: the first index of the largest element (1-based here).
argmax(s) ==
    LET m == Max(s)
    IN  CHOOSE i \in 1..Len(s) : s[i] = m /\ \A j \in 1..(i - 1) : s[j] # m

\* Python v[k] and v[k] = x for a 0-based index k.
At(v, k) == v[k + 1]

Put(v, k, x) == [v EXCEPT ![k + 1] = x]

\* An array built element by element: the sequence of its elements.
Array(f) == SubSeq(f, 1, Len(f))

Zeros == Array([k \in 1..n_moments |-> 0])

\* ------------------------------------------------- the theta_R series

\* get_thetaR: theta + sum_k cn[k] cos(k theta) + sn[k] sin(k theta).
get_thetaR(o, theta) ==
    Array([i \in 1..Len(theta) |->
        LET term == [k \in 1..n_moments |->
                        o.cn[k] * Cos(n[k] * theta[i]) + o.sn[k] * Sin(n[k] * theta[i])]
        IN  theta[i] + SumTo(term, n_moments)])

\* get_dthetaR_dtheta: 1 + sum_k (-cn[k] k sin(k theta) + sn[k] k cos(k theta)).
\* cn and sn are angles, so the sum carries the factor pi/2: the pair <<1, sum>>.
get_dthetaR_dtheta(o, theta) ==
    Array([i \in 1..Len(theta) |->
        LET term == [k \in 1..n_moments |->
                        (-o.cn[k]) * n[k] * Sin(n[k] * theta[i])
                        + o.sn[k] * n[k] * Cos(n[k] * theta[i])]
        IN  <<1, SumTo(term, n_moments)>>])

\* The same with the sine and the cosine exchanged.
get_dthetaR_dr_swapped(theta, dcndr, dsndr) ==
    Array([i \in 1..Len(theta) |->
        LET term == [k \in 1..n_moments |->
                        dcndr[k] * Sin(n[k] * theta[i]) + dsndr[k] * Cos(n[k] * theta[i])]
        IN  SumTo(term, n_moments)])

\* get_dthetaR_dr: sum_k dcndr[k] cos(k theta) + dsndr[k] sin(k theta).
get_dthetaR_dr(theta, dcndr, dsndr) ==
    Array([i \in 1..Len(theta) |->
        LET term == [k \in 1..n_moments |->
                        dcndr[k] * Cos(n[k] * theta[i]) + dsndr[k] * Sin(n[k] * theta[i])]
        IN  SumTo(term, n_moments)])

\* get_d2thetaR_drdtheta: sum_k -k dcndr[k] sin(k theta) + k dsndr[k] cos(k theta).
get_d2thetaR_drdtheta(theta, dcndr, dsndr) ==
    Array([i \in 1..Len(theta) |->
        LET term == [k \in 1..n_moments |->
                        (-n[k]) * dcndr[k] * Sin(n[k] * theta[i])
                        + n[k] * dsndr[k] * Cos(n[k] * theta[i])]
        IN  SumTo(term, n_moments)])

\* ---------------------------------------------------- first derivatives

\* get_dZdtheta: kappa * rmin * cos(theta).
get_dZdtheta(o, theta, normalised) ==
    LET rmin == IF normalised THEN o.rho ELSE o.r_minor
    IN  Array([i \in 1..Len(theta) |-> o.kappa * rmin * Cos(theta[i])])

\* get_dZdr: dZ0dr + kappa * sin(theta) * (1 + s_kappa).
get_dZdr(o, theta, dZ0dr, s_kappa) ==
    Array([i \in 1..Len(theta) |-> dZ0dr + o.kappa * Sin(theta[i]) * (1 + s_kappa)])

\* get_dRdtheta: -rmin * sin(thetaR) * dthetaR_dtheta (a pair, as dthetaR_dtheta).
get_dRdtheta(o, thetaR, dthetaR_dtheta, normalised) ==
    LET rmin == IF normalised THEN o.rho ELSE o.r_minor
    IN  Array([i \in 1..Len(thetaR) |->
            <<(-rmin) * Sin(thetaR[i]) * dthetaR_dtheta[i][1],
              (-rmin) * Sin(thetaR[i]) * dthetaR_dtheta[i][2]>>])

\* A mutant of get_dRdr: r_minor is used where rho is.
get_dRdr_r_minor(o, shift, thetaR, dthetaR_dr) ==
    Array([i \in 1..Len(thetaR) |->
        shift + Cos(thetaR[i]) - o.r_minor * Sin(thetaR[i]) * dthetaR_dr[i]])

\* get_dRdr: shift + cos(thetaR) - rho * sin(thetaR) * dthetaR_dr.
get_dRdr(o, shift, thetaR, dthetaR_dr) ==
    Array([i \in 1..Len(thetaR) |->
        shift + Cos(thetaR[i]) - o.rho * Sin(thetaR[i]) * dthetaR_dr[i]])

\* A slice x[a:b] of a parameter vector, for 0-based a and b.
Slice(x, a, b) == Array([k \in 1..(b - a) |-> x[a + k]])

\* The shear values get_RZ_derivatives works with: the object's stored ones when
\* params is None, else those unpacked from params.
NoParams == <<>>

\* A mutant of shear_used: the stored attributes are used whatever params is.
shear_used_stored(o, params) ==
    [shift |-> o.shift, s_kappa |-> o.s_kappa, dZ0dr |-> o.dZ0dr,
     dcndr |-> o.dcndr, dsndr |-> o.dsndr]

\* The same with dsndr unpacked before dcndr.
shear_used_swapped(o, params) ==
    IF params = NoParams
    THEN [shift |-> o.shift, s_kappa |-> o.s_kappa, dZ0dr |-> o.dZ0dr,
          dcndr |-> o.dcndr, dsndr |-> o.dsndr]
    ELSE [shift |-> At(params, 0), s_kappa |-> At(params, 1),
          dZ0dr |-> At(params, 2),
          dcndr |-> Slice(params, n_moments + 3, Len(params)),
          dsndr |-> Slice(params, 3, n_moments + 3)]

shear_used(o, params) ==
    IF params = NoParams
    THEN [shift |-> o.shift, s_kappa |-> o.s_kappa, dZ0dr |-> o.dZ0dr,
          dcndr |-> o.dcndr, dsndr |-> o.dsndr]
    ELSE [shift |-> At(params, 0), s_kappa |-> At(params, 1),
          dZ0dr |-> At(params, 2),
          dcndr |-> Slice(params, 3, n_moments + 3),
          dsndr |-> Slice(params, n_moments + 3, Len(params))]

\* A mutant of get_RZ_derivatives: the values unpacked from params are assigned
\* to the attributes (self.shift = params[0], ...) instead of to locals.
get_RZ_derivatives_storing(o, theta, params, normalised) ==
    LET s == shear_used(o, params)
        thetaR == get_thetaR(o, theta)
        dthetaR_dr == get_dthetaR_dr(theta, s.dcndr, s.dsndr)
        dthetaR_dtheta == get_dthetaR_dtheta(o, theta)
        dZdtheta == get_dZdtheta(o, theta, normalised)
        dZdr == get_dZdr(o, theta, s.dZ0dr, s.s_kappa)
        dRdtheta == get_dRdtheta(o, thetaR, dthetaR_dtheta, normalised)
        dRdr == get_dRdr(o, s.shift, thetaR, dthetaR_dr)
    IN  [ret |-> <<dRdtheta, dRdr, dZdtheta, dZdr>>,
         self |-> [o EXCEPT !.shift = s.shift, !.s_kappa = s.s_kappa,
                            !.dZ0dr = s.dZ0dr, !.dcndr = s.dcndr, !.dsndr = s.dsndr]]

\* get_RZ_derivatives: the tuple (dRdtheta, dRdr, dZdtheta, dZdr) it returns, and
\* the object as the call leaves it.
get_RZ_derivatives(o, theta, params, normalised) ==
    LET s == shear_used(o, params)
        thetaR == get_thetaR(o, theta)
        dthetaR_dr == get_dthetaR_dr(theta, s.dcndr, s.dsndr)
        dthetaR_dtheta == get_dthetaR_dtheta(o, theta)
        dZdtheta == get_dZdtheta(o, theta, normalised)
        dZdr == get_dZdr(o, theta, s.dZ0dr, s.s_kappa)
        dRdtheta == get_dRdtheta(o, thetaR, dthetaR_dtheta, normalised)
        dRdr == get_dRdr(o, s.shift, thetaR, dthetaR_dr)
    IN  [ret |-> <<dRdtheta, dRdr, dZdtheta, dZdr>>, self |-> o]

\* ----------------------------------------------------------- the surface

\* A mutant of get_flux_surface: the scaling by a_minor is applied to the stored
\* Rmaj and Z0 as well as to the returned arrays.
get_flux_surface_inplace(o, theta, normalised) ==
    LET thetaR == get_thetaR(o, theta)
        R == Array([i \in 1..Len(theta) |-> o.Rmaj + o.rho * Cos(thetaR[i])])
        Z == Array([i \in 1..Len(theta) |-> o.Z0 + o.kappa * o.rho * Sin(theta[i])])
    IN  IF normalised
        THEN [ret |-> <<R, Z>>, self |-> o, theta |-> theta]
        ELSE [ret |-> <<Array([i \in 1..Len(theta) |-> R[i] * o.a_minor]),
                        Array([i \in 1..Len(theta) |-> Z[i] * o.a_minor])>>,
              self |-> [o EXCEPT !.Rmaj = @ * o.a_minor, !.Z0 = @ * o.a_minor],
              theta |-> theta]

\* The same without the line Z *= self.a_minor.
get_flux_surface_R_only(o, theta, normalised) ==
    LET thetaR == get_thetaR(o, theta)
        R == Array([i \in 1..Len(theta) |-> o.Rmaj + o.rho * Cos(thetaR[i])])
        Z == Array([i \in 1..Len(theta) |-> o.Z0 + o.kappa * o.rho * Sin(theta[i])])
    IN  IF normalised
        THEN [ret |-> <<R, Z>>, self |-> o, theta |-> theta]
        ELSE [ret |-> <<Array([i \in 1..Len(theta) |-> R[i] * o.a_minor]), Z>>,
              self |-> o, theta |-> theta]

\* get_flux_surface: the (R, Z) it returns, the object and the caller's theta as
\* the call leaves them.  R and Z are new arrays, so R *= a_minor scales only them.
get_flux_surface(o, theta, normalised) ==
    LET thetaR == get_thetaR(o, theta)
        R == Array([i \in 1..Len(theta) |-> o.Rmaj + o.rho * Cos(thetaR[i])])
        Z == Array([i \in 1..Len(theta) |-> o.Z0 + o.kappa * o.rho * Sin(theta[i])])
    IN  IF normalised
        THEN [ret |-> <<R, Z>>, self |-> o, theta |-> theta]
        ELSE [ret |-> <<Array([i \in 1..Len(theta) |-> R[i] * o.a_minor]),
                        Array([i \in 1..Len(theta) |-> Z[i] * o.a_minor])>>,
              self |-> o, theta |-> theta]

\* --------------------------------------------------- second derivatives

\* get_d2thetaR_dtheta2: -sum_k k^2 (cn[k] cos(k theta) + sn[k] sin(k theta)).
\* cn and sn are angles, so the value is the pair <<0, sum>>.
get_d2thetaR_dtheta2(o, theta) ==
    Array([i \in 1..Len(theta) |->
        LET term == [k \in 1..n_moments |->
                        n[k] * n[k] * (o.cn[k] * Cos(n[k] * theta[i])
                                       + o.sn[k] * Sin(n[k] * theta[i]))]
        IN  <<0, -SumTo(term, n_moments)>>])

\* get_d2Zdtheta2: -kappa * rmin * sin(theta).
get_d2Zdtheta2(o, theta, normalised) ==
    LET rmin == IF normalised THEN o.rho ELSE o.r_minor
    IN  Array([i \in 1..Len(theta) |-> (-o.kappa) * rmin * Sin(theta[i])])

\* get_d2Zdrdtheta: kappa * cos(theta) * (1 + s_kappa).
get_d2Zdrdtheta(o, theta, s_kappa) ==
    Array([i \in 1..Len(theta) |-> o.kappa * Cos(theta[i]) * (1 + s_kappa)])

\* get_d2Rdtheta2: -rmin sin(thetaR) d2thetaR_dtheta2
\*                 - rmin (dthetaR_dtheta ** 2) cos(thetaR).
\* The square of a + b*(pi/2) has a term in (pi/2)^2: the value is the triple
\* of the coefficients of 1, pi/2 and (pi/2)^2.
get_d2Rdtheta2(o, thetaR, dthetaR_dtheta, d2thetaR_dtheta2, normalised) ==
    LET rmin == IF normalised THEN o.rho ELSE o.r_minor
    IN  Array([i \in 1..Len(thetaR) |->
            LET a == dthetaR_dtheta[i][1]
                b == dthetaR_dtheta[i][2]
                s == Sin(thetaR[i])
                c == Cos(thetaR[i])
            IN  <<(-rmin) * s * d2thetaR_dtheta2[i][1] - rmin * a * a * c,
                  (-rmin) * s * d2thetaR_dtheta2[i][2] - rmin * 2 * a * b * c,
                  (-rmin) * b * b * c>>])

\* get_d2Rdrdtheta: -dthetaR_dtheta sin(thetaR)
\*    - rho (sin(thetaR) d2thetaR_drdtheta + dthetaR_dr dthetaR_dtheta cos(thetaR)),
\* a pair, as dthetaR_dtheta.
get_d2Rdrdtheta(o, thetaR, dthetaR_dr, dthetaR_dtheta, d2thetaR_drdtheta) ==
    Array([i \in 1..Len(thetaR) |->
        LET s == Sin(thetaR[i])
            c == Cos(thetaR[i])
        IN  <<(-dthetaR_dtheta[i][1]) * s
                - o.rho * (s * d2thetaR_drdtheta[i]
                           + dthetaR_dr[i] * dthetaR_dtheta[i][1] * c),
              (-dthetaR_dtheta[i][2]) * s
                - o.rho * (dthetaR_dr[i] * dthetaR_dtheta[i][2] * c)>>])

\* get_RZ_second_derivatives: (d2Rdtheta2, d2Rdrdtheta, d2Zdtheta2, d2Zdrdtheta),
\* with the stored shear.
get_RZ_second_derivatives(o, theta, normalised) ==
    LET thetaR == get_thetaR(o, theta)
        dthetaR_dr == get_dthetaR_dr(theta, o.dcndr, o.dsndr)
        dthetaR_dtheta == get_dthetaR_dtheta(o, theta)
        d2thetaR_drdtheta == get_d2thetaR_drdtheta(theta, o.dcndr, o.dsndr)
        d2thetaR_dtheta2 == get_d2thetaR_dtheta2(o, theta)
    IN  <<get_d2Rdtheta2(o, thetaR, dthetaR_dtheta, d2thetaR_dtheta2, normalised),
          get_d2Rdrdtheta(o, thetaR, dthetaR_dr, dthetaR_dtheta, d2thetaR_drdtheta),
          get_d2Zdtheta2(o, theta, normalised),
          get_d2Zdrdtheta(o, theta, o.s_kappa)>>

\* The evaluation methods other than get_RZ_derivatives and get_flux_surface,
\* by name.  The helpers that take thetaR and derivatives of thetaR are given
\* those of theta, with the stored shear, as get_RZ_derivatives and
\* get_RZ_second_derivatives give them.
Accessors ==
    {"get_thetaR", "get_dthetaR_dtheta", "get_d2thetaR_dtheta2", "get_dthetaR_dr",
     "get_d2thetaR_drdtheta", "get_RZ_second_derivatives",
     "get_dZdtheta", "get_d2Zdtheta2", "get_dZdr", "get_d2Zdrdtheta",
     "get_dRdtheta", "get_d2Rdtheta2", "get_dRdr", "get_d2Rdrdtheta"}

value_of(o, name, theta, normalised) ==
    LET thetaR == get_thetaR(o, theta)
        dthetaR_dr == get_dthetaR_dr(theta, o.dcndr, o.dsndr)
        dthetaR_dtheta == get_dthetaR_dtheta(o, theta)
        d2thetaR_drdtheta == get_d2thetaR_drdtheta(theta, o.dcndr, o.dsndr)
        d2thetaR_dtheta2 == get_d2thetaR_dtheta2(o, theta)
    IN  CASE name = "get_thetaR" -> thetaR
          [] name = "get_dthetaR_dtheta" -> dthetaR_dtheta
          [] name = "get_d2thetaR_dtheta2" -> d2thetaR_dtheta2
          [] name = "get_dthetaR_dr" -> dthetaR_dr
          [] name = "get_d2thetaR_drdtheta" -> d2thetaR_drdtheta
          [] name = "get_RZ_second_derivatives" ->
                get_RZ_second_derivatives(o, theta, normalised)
          [] name = "get_dZdtheta" -> get_dZdtheta(o, theta, normalised)
          [] name = "get_d2Zdtheta2" -> get_d2Zdtheta2(o, theta, normalised)
          [] name = "get_dZdr" -> get_dZdr(o, theta, o.dZ0dr, o.s_kappa)
          [] name = "get_d2Zdrdtheta" -> get_d2Zdrdtheta(o, theta, o.s_kappa)
          [] name = "get_dRdtheta" ->
                get_dRdtheta(o, thetaR, dthetaR_dtheta, normalised)
          [] name = "get_d2Rdtheta2" ->
                get_d2Rdtheta2(o, thetaR, dthetaR_dtheta, d2thetaR_dtheta2, normalised)
          [] name = "get_dRdr" -> get_dRdr(o, o.shift, thetaR, dthetaR_dr)
          [] name = "get_d2Rdrdtheta" ->
                get_d2Rdrdtheta(o, thetaR, dthetaR_dr, dthetaR_dtheta, d2thetaR_drdtheta)

\* The same call with get_thetaR and get_dthetaR_dtheta keeping their result in
\* self.thetaR and self.dthetaR_dtheta, as _set_shape_coefficients does.
evaluate_caching(o, name, theta, normalised) ==
    LET v == value_of(o, name, theta, normalised)
    IN  [ret |-> v,
         self |-> IF name = "get_thetaR" THEN [o EXCEPT !.thetaR = v]
                  ELSE IF name = "get_dthetaR_dtheta"
                       THEN [o EXCEPT !.dthetaR_dtheta = v]
                       ELSE o,
         theta |-> theta]

\* A call of one of these methods: what it returns, and the object and the
\* caller's theta as it leaves them.  None of them assigns an attribute or an
\* element of an argument; each returns the value of an arithmetic expression.
evaluate(o, name, theta, normalised) ==
    [ret |-> value_of(o, name, theta, normalised), self |-> o, theta |-> theta]

\* ------------------------------------------------------- angle mapping

\* np.isclose(v, target) on the model's values: the integers -1, 0, 1 are either
\* equal to the target or a whole unit away from it.
isclose(v, target) == v = target

\* np.where(np.isclose(v, target), target, v) for one element.
clamp(v, target) == IF isclose(v, target) THEN target ELSE v

\* kappa = (max(Z) - min(Z)) / (2 * self.r_minor)
kappa_of(o, Z) == (Max(Z) - Min(Z)) \div (2 * o.r_minor)

\* Zmid = (max(Z) + min(Z)) / 2
Zmid_of(Z) == (Max(Z) + Min(Z)) \div 2

\* The index of the smallest |Z| instead.
Zind_of_smallest(Z) == argmax(Array([i \in 1..Len(Z) |-> -Abs(Z[i])]))

\* Zind = np.argmax(abs(Z))
Zind_of(Z) == argmax(Array([i \in 1..Len(Z) |-> Abs(Z[i])]))

\* R_upper = R[Zind]
R_upper_of(R, Z) == R[Zind_of(Z)]

\* normalised_height, after both clamps.
normalised_height_of(o, Z) ==
    LET Zmid == Zmid_of(Z)
        kappa == kappa_of(o, Z)
    IN  Array([i \in 1..Len(Z) |->
            clamp(clamp((Z[i] - Zmid) \div (kappa * o.r_minor), 1), -1)])

\* normalised_radius, after both clamps.
normalised_radius_of(o, R) ==
    Array([i \in 1..Len(R) |->
        clamp(clamp((R[i] - o.Rmaj * o.a_minor) \div o.r_minor, 1), -1)])

\* The inputs on which the code's divisions are exact and its inverse trig
\* functions return whole quarter turns: the contours the model can compute.
Representable(o, R, Z) ==
    /\ Len(R) = Len(Z)
    /\ Len(Z) >= 1
    /\ LET hi == Max(Z)
           lo == Min(Z)
       IN  /\ hi > lo
           /\ (hi - lo) % (2 * o.r_minor) = 0
           /\ (hi + lo) % 2 = 0
           /\ \A i \in 1..Len(Z) :
                 /\ (2 * Z[i] - hi - lo) % (hi - lo) = 0
                 /\ (R[i] - o.Rmaj * o.a_minor) % o.r_minor = 0
                 /\ Abs(R[i] - o.Rmaj * o.a_minor) <= o.r_minor

\* theta after the two branch corrections (np.where on R < R_upper, and on
\* R >= R_upper and Z < 0), before the first point is looked at.
theta_branch(o, R, Z) ==
    LET nh == normalised_height_of(o, Z)
        R_upper == R_upper_of(R, Z)
        t0 == Array([i \in 1..Len(Z) |-> arcsin(nh[i])])
        t1 == Array([i \in 1..Len(Z) |-> IF R[i] < R_upper THEN Pi - t0[i] ELSE t0[i]])
    IN  Array([i \in 1..Len(Z) |->
            IF R[i] >= R_upper /\ Z[i] < 0 THEN 2 * Pi + t1[i] ELSE t1[i]])

\* thetaR after its correction (np.where on Z < 0).
thetaR_branch(o, R, Z) ==
    LET nr == normalised_radius_of(o, R)
        t0 == Array([i \in 1..Len(R) |-> arccos(nr[i])])
    IN  Array([i \in 1..Len(R) |-> IF Z[i] < 0 THEN 2 * Pi - t0[i] ELSE t0[i]])

\* A mutant of first_point: when theta[0] > pi every element of both arrays is
\* shifted by -2 pi.
first_point_all(theta, thetaR) ==
    IF At(theta, 0) > Pi
    THEN [theta |-> Array([i \in 1..Len(theta) |-> theta[i] - 2 * Pi]),
          thetaR |-> Array([i \in 1..Len(thetaR) |-> thetaR[i] - 2 * Pi])]
    ELSE [theta |-> theta, thetaR |-> thetaR]

\* "Ensure first point is close to 0 rather than 2pi":
\* if theta[0] > np.pi: theta[0] += -2 pi; thetaR[0] += -2 pi.
first_point(theta, thetaR) ==
    IF At(theta, 0) > Pi
    THEN [theta |-> Put(theta, 0, At(theta, 0) - 2 * Pi),
          thetaR |-> Put(thetaR, 0, At(thetaR, 0) - 2 * Pi)]
    ELSE [theta |-> theta, thetaR |-> thetaR]

\* The local arrays theta and thetaR as they stand when theta is stored.
angles(o, R, Z) == first_point(theta_branch(o, R, Z), thetaR_branch(o, R, Z))

\* ---------------------------------------------------- harmonic moments

\* scipy.integrate.simpson(y, x): library code.  The quadrature of an integrand
\* that is zero at every sample is 0 under any rule; any other result is the
\* value q the library computes, which the caller of this operator supplies.
simpson(y, x, q) == IF \A i \in 1..Len(y) : y[i] = 0 THEN 0 ELSE q

\* cn = simpson(theta_diff * cos(ntheta), theta, axis=1) / pi, one entry per
\* moment; qc[k] is the library's value for moment k.
cn_of(theta, thetaR, qc) ==
    Array([k \in 1..n_moments |->
        simpson(Array([i \in 1..Len(theta) |->
                    (thetaR[i] - theta[i]) * Cos(n[k] * theta[i])]), theta, qc[k])])

\* sn = simpson(theta_diff * sin(ntheta), theta, axis=1) / pi.
sn_of(theta, thetaR, qs) ==
    Array([k \in 1..n_moments |->
        simpson(Array([i \in 1..Len(theta) |->
                    (thetaR[i] - theta[i]) * Sin(n[k] * theta[i])]), theta, qs[k])])

\* ------------------------------------------------------------ the fit

\* A mutant of set_shape: self.cn += cn, so the moments of an earlier fit stay
\* in the stored cn.
set_shape_accumulating(o, R, Z, qc, qs) ==
    LET a == angles(o, R, Z)
        cn == cn_of(a.theta, a.thetaR, qc)
        o1 == [o EXCEPT !.theta_eq = a.theta,
                        !.kappa = kappa_of(o, Z),
                        !.sn = sn_of(a.theta, a.thetaR, qs),
                        !.cn = Array([k \in 1..n_moments |-> o.cn[k] + cn[k]]),
                        !.theta = a.theta]
        o2 == [o1 EXCEPT !.thetaR = get_thetaR(o1, a.theta),
                         !.dthetaR_dtheta = get_dthetaR_dtheta(o1, a.theta)]
        rz == get_flux_surface(o2, o2.theta, TRUE)
    IN  [o2 EXCEPT !.R = rz.ret[1], !.Z = rz.ret[2]]

\* _set_shape_coefficients up to the call of the solver: the object after
\* theta_eq, kappa, sn, cn, theta, thetaR, dthetaR_dtheta, R and Z are assigned.
set_shape(o, R, Z, qc, qs) ==
    LET a == angles(o, R, Z)
        o1 == [o EXCEPT !.theta_eq = a.theta,
                        !.kappa = kappa_of(o, Z),
                        !.sn = sn_of(a.theta, a.thetaR, qs),
                        !.cn = cn_of(a.theta, a.thetaR, qc),
                        !.theta = a.theta]
        o2 == [o1 EXCEPT !.thetaR = get_thetaR(o1, a.theta),
                         !.dthetaR_dtheta = get_dthetaR_dtheta(o1, a.theta)]
        rz == get_flux_surface(o2, o2.theta, TRUE)
    IN  [o2 EXCEPT !.R = rz.ret[1], !.Z = rz.ret[2]]

\* The same with one group of n_moments zeros instead of two.
initial_params_short(shift) == <<shift, 0, 0>> \o Array([k \in 1..n_moments |-> 0])

\* params = [shift, s_kappa_init, 0.0, *[0.0] * self.n_moments * 2]
initial_params(shift) == <<shift, 0, 0>> \o Array([k \in 1..(n_moments * 2) |-> 0])

\* A mutant of store_solution: dsndr[0] is left as the solver returned it.
store_solution_unforced(o, x) ==
    LET dcndr == Slice(x, 3, n_moments + 3)
        dsndr == Slice(x, n_moments + 3, Len(x))
    IN  [o EXCEPT !.shift = At(x, 0), !.s_kappa = At(x, 1), !.dZ0dr = At(x, 2),
                  !.dcndr = dcndr, !.dsndr = dsndr,
                  !.dthetaR_dr = get_dthetaR_dr(o.theta, dcndr, dsndr)]

\* The same with the slices taken one component late.
store_solution_shifted(o, x) ==
    LET dcndr == Slice(x, 4, n_moments + 4)
        dsndr == Put(Slice(x, n_moments + 3, Len(x)), 0, 0)
    IN  [o EXCEPT !.shift = At(x, 0), !.s_kappa = At(x, 1), !.dZ0dr = At(x, 2),
                  !.dcndr = dcndr, !.dsndr = dsndr,
                  !.dthetaR_dr = get_dthetaR_dr(o.theta, dcndr, dsndr)]

\* The assignments after a successful solve: shift, s_kappa, dZ0dr, dcndr and
\* dsndr from fits.x, dsndr[0] forced to 0.0, then dthetaR_dr.
store_solution(o, x) ==
    LET dcndr == Slice(x, 3, n_moments + 3)
        dsndr == Put(Slice(x, n_moments + 3, Len(x)), 0, 0)
    IN  [o EXCEPT !.shift = At(x, 0), !.s_kappa = At(x, 1), !.dZ0dr = At(x, 2),
                  !.dcndr = dcndr, !.dsndr = dsndr,
                  !.dthetaR_dr = get_dthetaR_dr(o.theta, dcndr, dsndr)]

\* The threshold of the poor-fit warning, 0.1, in hundredths (costs are counted
\* in hundredths).
cost_threshold == 10

\* A mutant of poor_fit: the warning is given from the threshold on.
poor_fit_from(cost) == cost >= cost_threshold

\* if fits.cost > 0.1: warnings.warn(...)
poor_fit(cost) == cost > cost_threshold

NoException == [raised |-> FALSE, type |-> "", has_message |-> FALSE,
                message |-> "", has_cost |-> FALSE, cost |-> 0]

\* A mutant of failure_exception: the text does not include fits.message.
failure_exception_bare(fits) ==
    [raised |-> TRUE, type |-> "Exception", has_message |-> FALSE,
     message |-> "", has_cost |-> FALSE, cost |-> 0]

\* raise Exception(f"Least squares fitting ... failed with message :
\* {fits.message}"): the text holds the solver's message and nothing else of fits.
failure_exception(fits) ==
    [raised |-> TRUE, type |-> "Exception", has_message |-> TRUE,
     message |-> fits.message, has_cost |-> FALSE, cost |-> 0]

\* A mutant of fit_outcome: a failure of the solver is not looked at.
fit_outcome_unchecked(fits) == "Converged"

\* if not fits.success: raise ...; otherwise the call runs to its end.
fit_outcome(fits) == IF fits.success THEN "Converged" ELSE "Failed"

\* ------------------------------------------------ the property setters

\* delta getter: np.sin(self.sn[1]).
delta(o) == Sin(At(o.sn, 1))

\* delta setter: self.sn[1] = np.arcsin(value).
set_delta(o, value) == [o EXCEPT !.sn = Put(o.sn, 1, arcsin(value))]

\* s_delta setter: self.dsndr[1] = value / np.sqrt(1 - self.delta**2) / self.rho,
\* for delta = 0 (the square root is 1) and value a multiple of rho.
set_s_delta(o, value) == [o EXCEPT !.dsndr = Put(o.dsndr, 1, value \div o.rho)]

\* zeta setter: self["sn"][2] = -value.
set_zeta(o, value) == [o EXCEPT !.sn = Put(o.sn, 2, -value)]

\* s_zeta setter: self.dsndr[2] = -value / self.rho, for value a multiple of rho.
set_s_zeta(o, value) == [o EXCEPT !.dsndr = Put(o.dsndr, 2, (-value) \div o.rho)]

\* ----------------------------------------------------- inputs and bounds

\* Shear values (in solution vectors and constructor dictionaries) are drawn from
\* 0..MaxShear.
MaxShear == 1

ShearVals == 0..MaxShear

\* The fixed scalars of every object of the model: a_minor = 2, rho = 1,
\* r_minor = rho * a_minor, Rmaj = 3, Z0 = 0.
Construct(kappa, shift, s_kappa, dZ0dr, cn, sn, dcndr, dsndr) ==
    [r_minor |-> 2, a_minor |-> 2, rho |-> 1, Rmaj |-> 3, Z0 |-> 0,
     kappa |-> kappa, shift |-> shift, s_kappa |-> s_kappa, dZ0dr |-> dZ0dr,
     cn |-> cn, sn |-> sn, dcndr |-> dcndr, dsndr |-> dsndr,
     theta |-> <<>>, theta_eq |-> <<>>, thetaR |-> <<>>,
     dthetaR_dtheta |-> <<>>, dthetaR_dr |-> <<>>, R |-> <<>>, Z |-> <<>>]

\* default(): the object built from default_mxh_inputs(): cn, dcndr, sn and dsndr
\* are np.zeros(n_moments); kappa 1 and zero shear stand for the base defaults.
default == Construct(1, 0, 0, 0, Zeros, Zeros, Zeros, Zeros)

\* __init__ with a dictionary: the object holds the dictionary's values.
FromDict(v) ==
    Construct(2, v, v, v, <<0, v, 0, 0>>, <<0, 0, v, 0>>, <<v, 0, 0, 0>>, <<v, v, 0, 0>>)

InitObjects == {default} \cup {FromDict(v) : v \in 1..MaxShear}

\* The four points of a contour that the model can compute with: the outboard
\* midplane point, the top, the inboard midplane point and the bottom, as
\* (normalised radius, normalised height), in counter-clockwise order.
Ring == << <<1, 0>>, <<0, 1>>, <<-1, 0>>, <<0, -1>> >>

\* The heights contours are centred at, and their elongations.
ZOffsets == {0, 4}

ElongVals == {1, 2}

\* The contour that starts at ring point start, runs counter-clockwise once, is
\* centred at height zoff and has elongation h.
Contour(o, start, zoff, h) ==
    LET pos(i) == ((start + i - 1) % 4) + 1
    IN  [R |-> Array([i \in 1..4 |-> o.Rmaj * o.a_minor + o.r_minor * Ring[pos(i)][1]]),
         Z |-> Array([i \in 1..4 |-> zoff + h * o.r_minor * Ring[pos(i)][2]]),
         start |-> start, zoff |-> zoff, h |-> h]

Contours(o) ==
    {Contour(o, start, zoff, h) : start \in 0..3, zoff \in ZOffsets, h \in ElongVals}

\* Every contour of the model is one the model can compute.
InputsRepresentable ==
    \A o \in InitObjects : \A c \in Contours(o) : Representable(o, c.R, c.Z)

\* The values the quadrature library may return for the moments of one contour,
\* numbered by q; q = 0 is all that is drawn when thetaR = theta at every sample.
Qc(q) == <<q, 0, -q, 0>>

Qs(q) == <<0, q, q, 0>>

QuadVals(a) == IF a.theta = a.thetaR THEN {0} ELSE {0, 1}

ShiftGuesses == {0, 1}

\* The solution vectors the solver may return.
SolverX(a) == <<a, a, -a, 0, a, 0, -a, a, a, 0, a>>

SolverXs == {SolverX(a) : a \in ShearVals}

\* The results least_squares may return: success with the message of a satisfied
\* termination condition, any solution vector and a cost at or above the warning
\* threshold, or failure with one of two messages and a cost above the threshold.
CostVals == {cost_threshold, cost_threshold + 1}

SolverResults ==
    [success : {TRUE}, message : {"ftol"}, cost : CostVals, x : SolverXs]
    \cup [success : {FALSE}, message : {"maxfev", "improper"},
          cost : {cost_threshold + 1}, x : {SolverX(MaxShear)}]

NoFits == [success |-> FALSE, message |-> "", cost |-> 0, x |-> <<>>]

ThetaArgs(o) == {<<0, 1>>} \cup (IF o.theta = <<>> THEN {} ELSE {o.theta})

ParamArgs == {NoParams, SolverX(MaxShear)}

\* The values the setters are called with.
SetterVals == {0, 1}

\* --------------------------------------------------------------- state

VARIABLES
    obj,     \* the LocalGeometryMXH object: its attributes
    base,    \* the object as it was constructed
    phase,   \* Initialized, Fitting, Converged or Failed
    call,    \* the latest call of _set_shape_coefficients: arguments and locals
    out,     \* the latest operation: its name, arguments and return value
    heap     \* the arrays created by default_mxh_inputs and who refers to them

vars == <<obj, base, phase, call, out, heap>>

\* The heap: the arrays in the order they were created (an array is referred to
\* by its position), the dictionaries default_mxh_inputs has returned and the
\* objects constructed, each as the references it holds under cn, dcndr, sn and
\* dsndr.  An object also records the dictionary it was constructed from, 0
\* when it was constructed without arguments.
NoHeap == [arrays |-> <<>>, dicts |-> <<>>, objs |-> <<>>]

NoCall == [R |-> <<>>, Z |-> <<>>, shift |-> 0, quad |-> 0,
           theta |-> <<>>, thetaR |-> <<>>,
           params |-> <<>>, nsolve |-> 0, solved |-> FALSE, fits |-> NoFits,
           exc |-> NoException, warned |-> FALSE, returned |-> FALSE]

\* theta_after is the caller's theta array as the operation leaves it; again
\* tells that the operation before it was the same one with the same arguments.
Op(name, theta, normalised, params, value, ret) ==
    [op |-> name, theta |-> theta, normalised |-> normalised, params |-> params,
     value |-> value, ret |-> ret, theta_after |-> theta, again |-> FALSE]

NoOp == Op("init", <<>>, FALSE, NoParams, 0, <<>>)

\* The record of a call when least_squares is called: arguments, the local theta
\* and thetaR, the initial vector, one call of the solver.
begin_call(R, Z, shift, q, a) ==
    [NoCall EXCEPT !.R = R, !.Z = Z, !.shift = shift, !.quad = q,
                   !.theta = a.theta, !.thetaR = a.thetaR,
                   !.params = initial_params(shift), !.nsolve = 1]

\* The record of a call when it ends: with the exception it raises, or with the
\* warning it gave and its return.
end_call(c, fits) ==
    IF fit_outcome(fits) = "Failed"
    THEN [c EXCEPT !.solved = TRUE, !.fits = fits, !.exc = failure_exception(fits)]
    ELSE [c EXCEPT !.solved = TRUE, !.fits = fits, !.warned = poor_fit(fits.cost),
                   !.returned = TRUE]

\* The same with the solution stored before success is tested.
end_object_unchecked(o, fits) == store_solution(o, fits.x)

\* The object when a call ends: untouched by a call that raises.
end_object(o, fits) ==
    IF fit_outcome(fits) = "Failed" THEN o ELSE store_solution(o, fits.x)

Init ==
    /\ obj \in InitObjects
    /\ base = obj
    /\ phase = "Initialized"
    /\ call = NoCall
    /\ out = NoOp
    /\ heap = NoHeap

\* _set_shape_coefficients(R, Z, b_poloidal, verbose, shift) from its first line
\* to the call of least_squares.  b_poloidal is not read by the method; verbose
\* only prints.
FitCall ==
    /\ phase # "Fitting"
    /\ \E c \in Contours(obj) :
          LET a == angles(obj, c.R, c.Z)
          IN  \E q \in QuadVals(a) :
                 LET o == set_shape(obj, c.R, c.Z, Qc(q), Qs(q))
                 IN  \E shift \in ShiftGuesses :
                        /\ obj' = o
                        /\ call' = begin_call(c.R, c.Z, shift, q, a)
    /\ phase' = "Fitting"
    /\ out' = Op("fit_call", <<>>, FALSE, NoParams, 0, <<>>)
    /\ UNCHANGED <<base, heap>>

\* least_squares returns, and _set_shape_coefficients runs to its end: it raises
\* on failure, else warns of a poor fit and stores the solution.
SolverReturn ==
    /\ phase = "Fitting"
    /\ \E fits \in SolverResults :
          /\ phase' = fit_outcome(fits)
          /\ obj' = end_object(obj, fits)
          /\ call' = end_call(call, fits)
    /\ out' = Op("fit_return", <<>>, FALSE, NoParams, 0, <<>>)
    /\ UNCHANGED <<base, heap>>

\* What the solver's residual function reads of the object: the fixed scalars,
\* the contour the object holds, and what get_RZ_derivatives(theta_eq, params)
\* reads when params is given.
SolverView(o) ==
    <<o.r_minor, o.a_minor, o.rho, o.Rmaj, o.Z0, o.kappa, o.cn, o.sn, o.theta_eq,
      o.R, o.Z>>

\* While the solver runs, its residual function evaluates the derivatives at
\* theta_eq for a trial vector: get_RZ_derivatives(theta_eq, params, normalised).
ResidualEval ==
    /\ phase = "Fitting"
    /\ \E params \in SolverXs \cup {call.params}, normalised \in BOOLEAN :
          LET r == get_RZ_derivatives(obj, obj.theta_eq, params, normalised)
          IN  /\ obj' = r.self
              /\ out' = Op("get_RZ_derivatives", obj.theta_eq, normalised, params,
                           0, r.ret)
    /\ UNCHANGED <<base, phase, call, heap>>

Next ==
    \/ FitCall
    \/ SolverReturn
    \/ ResidualEval

Spec == Init /\ [][Next]_vars

\* ------------------------------------- the object in use, between fits

\* get_RZ_derivatives(theta, params, normalised)
GetRZDerivatives ==
    /\ phase # "Fitting"
    /\ \E theta \in ThetaArgs(obj), params \in ParamArgs, normalised \in BOOLEAN :
          LET r == get_RZ_derivatives(obj, theta, params, normalised)
          IN  /\ obj' = r.self
              /\ out' = Op("get_RZ_derivatives", theta, normalised, params, 0, r.ret)
    /\ UNCHANGED <<base, phase, call, heap>>

\* get_flux_surface(theta, normalised)
GetFluxSurface ==
    /\ phase # "Fitting"
    /\ \E theta \in ThetaArgs(obj), normalised \in BOOLEAN :
          LET r == get_flux_surface(obj, theta, normalised)
          IN  /\ obj' = r.self
              /\ out' = [Op("get_flux_surface", theta, normalised, NoParams, 0, r.ret)
                            EXCEPT !.theta_after = r.theta,
                                   !.again = /\ out.op = "get_flux_surface"
                                             /\ out.theta = theta
                                             /\ out.normalised = normalised]
    /\ UNCHANGED <<base, phase, call, heap>>

\* obj.delta = value
SetDelta ==
    /\ phase # "Fitting"
    /\ \E value \in SetterVals :
          /\ obj' = set_delta(obj, value)
          /\ out' = Op("set_delta", <<>>, FALSE, NoParams, value, <<>>)
    /\ UNCHANGED <<base, phase, call, heap>>

\* obj.s_delta = value, where the division is defined (delta is 0)
SetSDelta ==
    /\ phase # "Fitting"
    /\ delta(obj) = 0
    /\ \E value \in SetterVals :
          /\ obj' = set_s_delta(obj, value)
          /\ out' = Op("set_s_delta", <<>>, FALSE, NoParams, value, <<>>)
    /\ UNCHANGED <<base, phase, call, heap>>

\* obj.zeta = value
SetZeta ==
    /\ phase # "Fitting"
    /\ \E value \in SetterVals :
          /\ obj' = set_zeta(obj, value)
          /\ out' = Op("set_zeta", <<>>, FALSE, NoParams, value, <<>>)
    /\ UNCHANGED <<base, phase, call, heap>>

\* obj.s_zeta = value
SetSZeta ==
    /\ phase # "Fitting"
    /\ \E value \in SetterVals :
          /\ obj' = set_s_zeta(obj, value)
          /\ out' = Op("set_s_zeta", <<>>, FALSE, NoParams, value, <<>>)
    /\ UNCHANGED <<base, phase, call, heap>>

\* The contours the objects in use were fitted to.
UseContours(o) == {Contour(o, 3, 0, 2), Contour(o, 0, 4, 2)}

\* The solver results of those calls.
UseResults ==
    {f \in SolverResults : /\ f.success
                           /\ f.cost = cost_threshold
                           /\ f.x \in {SolverX(0), SolverX(MaxShear)}}

\* The object in use: as constructed, or after one completed call of
\* _set_shape_coefficients (the states FitCall and SolverReturn lead to).
InitUse ==
    /\ base \in InitObjects
    /\ out = NoOp
    /\ heap = NoHeap
    /\ \/ /\ obj = base
          /\ phase = "Initialized"
          /\ call = NoCall
       \/ \E c \in UseContours(base), fits \in UseResults :
             LET a == angles(base, c.R, c.Z)
             IN  \E q \in QuadVals(a) :
                    /\ obj = end_object(set_shape(base, c.R, c.Z, Qc(q), Qs(q)), fits)
                    /\ call = end_call(begin_call(c.R, c.Z, 0, q, a), fits)
                    /\ phase = fit_outcome(fits)

NextUse ==
    \/ GetRZDerivatives
    \/ GetFluxSurface
    \/ SetDelta
    \/ SetSDelta
    \/ SetZeta
    \/ SetSZeta

SpecUse == InitUse /\ [][NextUse]_vars

\* ---------------------------------------------------- evaluation only

\* One of the evaluation methods is called with a theta and a normalised flag.
Evaluate ==
    /\ phase # "Fitting"
    /\ \E name \in Accessors, theta \in ThetaArgs(obj), normalised \in BOOLEAN :
          LET r == evaluate(obj, name, theta, normalised)
          IN  /\ obj' = r.self
              /\ out' = [Op(name, theta, normalised, NoParams, 0, r.ret)
                            EXCEPT !.theta_after = r.theta]
    /\ UNCHANGED <<base, phase, call, heap>>

NextEval ==
    \/ Evaluate
    \/ GetRZDerivatives
    \/ GetFluxSurface

\* The object as constructed or as fitted, with only evaluations called on it.
SpecEval == InitUse /\ [][NextEval]_vars

\* ------------------------------------------- delta and s_delta, exactly

\* Triangularities strictly between -1 and 1 have no whole quarter turn for an
\* arcsin.  Here delta is counted in fifths and takes the values whose
\* sqrt(1 - delta^2) is a whole number of fifths as well: 0, 3/5, 4/5 and their
\* negatives.  An angle is the pair <<a, b>> for a*(pi/2) + b*arcsin(3/5).
Fifth == 5

DeltaVals == {-4, -3, 0, 3, 4}

\* np.arcsin of d fifths: arcsin(4/5) = pi/2 - arcsin(3/5).
arcsin_fifths(d) ==
    CASE d = 0 -> <<0, 0>>
      [] d = 3 -> <<0, 1>>
      [] d = 4 -> <<1, -1>>
      [] d = -3 -> <<0, -1>>
      [] d = -4 -> <<-1, 1>>

\* np.sin of such an angle, in fifths.
sin_fifths(t) ==
    CASE t = <<0, 0>> -> 0
      [] t = <<0, 1>> -> 3
      [] t = <<1, -1>> -> 4
      [] t = <<0, -1>> -> -3
      [] t = <<-1, 1>> -> -4

\* np.sqrt(1 - delta**2), in fifths.
sqrt_one_minus_square(d) == CHOOSE c \in 0..Fifth : c * c = Fifth * Fifth - d * d

\* delta getter: np.sin(self.sn[1]).
delta_fifths(o) == sin_fifths(At(o.sn, 1))

\* delta setter: self.sn[1] = np.arcsin(value).
set_delta_fifths(o, value) == [o EXCEPT !.sn = Put(o.sn, 1, arcsin_fifths(value))]

\* s_delta getter: self.dsndr[1] * np.sqrt(1 - self.delta**2) * self.rho.
s_delta_fifths(o) ==
    (At(o.dsndr, 1) * sqrt_one_minus_square(delta_fifths(o)) * o.rho) \div Fifth

\* The setter without the division by the square root.
set_s_delta_plain(o, value) == [o EXCEPT !.dsndr = Put(o.dsndr, 1, value \div o.rho)]

\* s_delta setter: self.dsndr[1] = value / np.sqrt(1 - self.delta**2) / self.rho.
set_s_delta_fifths(o, value) ==
    [o EXCEPT !.dsndr = Put(o.dsndr, 1,
        ((value * Fifth) \div sqrt_one_minus_square(delta_fifths(o))) \div o.rho)]

\* The values s_delta is assigned: multiples of 120, so that every quotient by
\* 3/5, 4/5, 1 and rho is a whole number.
SDeltaVals == {-120, 0, 120, 240}

RhoVals == {1, 2}

\* The part of the object the two properties read and write, as constructed by
\* default (zero moments) with a given rho.
ShapingObject(rho) ==
    [sn |-> [k \in 1..n_moments |-> <<0, 0>>], dsndr |-> Zeros, rho |-> rho]

InitShaping ==
    /\ obj \in {ShapingObject(rho) : rho \in RhoVals}
    /\ base = obj
    /\ phase = "Initialized"
    /\ call = NoCall
    /\ out = NoOp
    /\ heap = NoHeap

\* obj.delta = value
AssignDelta ==
    /\ \E value \in DeltaVals :
          /\ obj' = set_delta_fifths(obj, value)
          /\ out' = Op("set_delta", <<>>, FALSE, NoParams, value, <<>>)
    /\ UNCHANGED <<base, phase, call, heap>>

\* obj.s_delta = value
AssignSDelta ==
    /\ \E value \in SDeltaVals :
          /\ obj' = set_s_delta_fifths(obj, value)
          /\ out' = Op("set_s_delta", <<>>, FALSE, NoParams, value, <<>>)
    /\ UNCHANGED <<base, phase, call, heap>>

NextShaping ==
    \/ AssignDelta
    \/ AssignSDelta

SpecShaping == InitShaping /\ [][NextShaping]_vars

\* ------------------------------------------------ single computations

\* A misfit thetaR - theta that is a harmonic series of order below n_moments:
\* its value at the angle t, for cosine coefficients c and sine coefficients s
\* (indexed like cn and sn, in quarter turns).
series(c, s, t) ==
    SumTo([k \in 1..n_moments |-> c[k] * Cos(n[k] * t) + s[k] * Sin(n[k] * t)],
          n_moments)

\* The integrals over one period of cos(j theta) cos(k theta) and of
\* sin(j theta) sin(k theta), in units of pi; the integral of
\* sin(j theta) cos(k theta) is 0.
InnerCos(j, k) == IF j # k THEN 0 ELSE IF j = 0 THEN 2 ELSE 1

InnerSin(j, k) == IF j # k THEN 0 ELSE IF j = 0 THEN 0 ELSE 1

\* cn = simpson(theta_diff * np.cos(ntheta), theta, axis=1) / np.pi and
\* sn = simpson(theta_diff * np.sin(ntheta), theta, axis=1) / np.pi when
\* theta_diff is the series with coefficients c and s, theta runs over one period
\* and the quadrature is exact: each integral, in units of pi, divided by pi.
moments_of_series(c, s) ==
    [cn |-> Array([k \in 1..n_moments |->
                SumTo([j \in 1..n_moments |-> c[j] * InnerCos(n[j], n[k])],
                      n_moments)]),
     sn |-> Array([k \in 1..n_moments |->
                SumTo([j \in 1..n_moments |-> s[j] * InnerSin(n[j], n[k])],
                      n_moments)])]

\* The coefficients of the misfits that are decomposed.
CoefVals == {0, 1}

\* The moments of a band-limited misfit are computed as the fit computes them.
Decompose ==
    /\ \E c \in [1..n_moments -> CoefVals], s \in [1..n_moments -> CoefVals] :
          /\ s[1] = 0
          /\ out' = [op |-> "moments", c |-> Array(c), s |-> Array(s),
                     cn |-> moments_of_series(c, s).cn,
                     sn |-> moments_of_series(c, s).sn]
    /\ UNCHANGED <<obj, base, phase, call, heap>>

\* The contours with one point outside the domain of arccos: a contour of the
\* model with its outboard or its inboard midplane point moved away from the
\* axis to twice r_minor.
OutsideContours(o) ==
    {[c EXCEPT !.R = [i \in 1..Len(c.R) |->
                        IF i = k THEN o.Rmaj * o.a_minor + 2 * (c.R[k] - o.Rmaj * o.a_minor)
                        ELSE c.R[i]]] :
         c \in Contours(o), k \in 1..2} \ Contours(o)

\* np.arccos(x) is nan, with a RuntimeWarning and no exception, for a clamped x
\* outside [-1, 1]: whether element i of the local thetaR is a number.
thetaR_defined(o, R) ==
    LET nr == normalised_radius_of(o, R)
    IN  Array([i \in 1..Len(R) |-> Abs(nr[i]) <= 1])

\* _set_shape_coefficients up to the call of the solver on a contour with points
\* outside the domain, where nan is what arithmetic on nan gives: whether an
\* exception was raised, the attributes assigned, and those of them that hold nan.
set_shape_outside(o, R, Z) ==
    LET thetaR == thetaR_defined(o, R)
        theta_diff == thetaR
        \* simpson over an array that holds a nan is nan, for every moment
        cn == Array([k \in 1..n_moments |-> \A i \in 1..Len(R) : theta_diff[i]])
        sn == cn
        \* get_thetaR, get_dthetaR_dtheta: sums over the moments
        series_defined == \A k \in 1..n_moments : cn[k] /\ sn[k]
        \* get_flux_surface: R from thetaR, Z from kappa and theta
        is_nan == [theta_eq |-> FALSE, kappa |-> FALSE,
                   sn |-> \E k \in 1..n_moments : ~sn[k],
                   cn |-> \E k \in 1..n_moments : ~cn[k],
                   theta |-> FALSE,
                   thetaR |-> ~series_defined,
                   dthetaR_dtheta |-> ~series_defined,
                   R |-> ~series_defined, Z |-> FALSE]
    IN  [raised |-> FALSE,
         stored |-> DOMAIN is_nan,
         undefined |-> {a \in DOMAIN is_nan : is_nan[a]}]

\* _set_shape_coefficients, up to the call of least_squares, on a contour with a
\* point outside the domain of arccos.
FitOutside ==
    /\ \E c \in OutsideContours(obj) :
          LET r == set_shape_outside(obj, c.R, c.Z)
          IN  out' = [op |-> "fit_outside", R |-> c.R, Z |-> c.Z,
                      raised |-> r.raised, stored |-> r.stored,
                      undefined |-> r.undefined]
    /\ UNCHANGED <<obj, base, phase, call, heap>>

\* Values near +1 and -1 are counted in units of 1e-9: Unit is 1.0.
Unit == 1000000000

\* np.isclose(a, b, rtol=1e-05, atol=1e-08) is |a - b| <= atol + rtol * |b|.
\* rtol keeps numpy's default in both calls; as its inverse, 1/rtol = 1e5.
rtol_inverse == 100000

\* atol: numpy's default 1e-8 for the height, atol=1e-4 for the radius, in units.
atol_default == 10

atol_radius == 100000

isclose_tol(v, target, atol) ==
    Abs(v - target) <= atol + Abs(target) \div rtol_inverse

\* The clamps with the relative part of the tolerance left out.
clamp_height_atol_only(h) ==
    LET a == IF Abs(h - Unit) <= atol_default THEN Unit ELSE h
    IN  IF Abs(a + Unit) <= atol_default THEN -Unit ELSE a

\* Lines 175-180: the normalised height clamped to 1.0, then to -1.0.
clamp_height(h) ==
    LET a == IF isclose_tol(h, Unit, atol_default) THEN Unit ELSE h
    IN  IF isclose_tol(a, -Unit, atol_default) THEN -Unit ELSE a

\* Lines 186-191: the normalised radius clamped to 1.0, then to -1.0.
clamp_radius(x) ==
    LET a == IF isclose_tol(x, Unit, atol_radius) THEN Unit ELSE x
    IN  IF isclose_tol(a, -Unit, atol_radius) THEN -Unit ELSE a

\* Distances from +1 or -1, in units: on and next to 1e-8, 1e-8 + 1e-5, 1e-4 and
\* 1e-4 + 1e-5, and a tenth away.
ClampDistances ==
    {0, 1, 10, 11, 10010, 10011, 100000, 100001, 110000, 110001, Unit \div 10}

\* The two clamps applied to one value near +1 or -1, inside or outside.
Clamp ==
    /\ \E side \in {-1, 1}, d \in ClampDistances, sign \in {-1, 1} :
          LET v == side * Unit + sign * d
          IN  out' = [op |-> "clamp", v |-> v,
                      height |-> clamp_height(v), radius |-> clamp_radius(v)]
    /\ UNCHANGED <<obj, base, phase, call, heap>>

\* Contours for locating R_upper: any four heights, not all equal, whose highest
\* and lowest have an integer middle; R counts the points, so that the R found
\* tells which point was taken.
HeightVals == -2..2

Heights ==
    {Z \in [1..4 -> HeightVals] : /\ Max(Z) > Min(Z)
                                  /\ (Max(Z) + Min(Z)) % 2 = 0}

\* Lines 164-170 of _set_shape_coefficients: Zmid, Zind and R_upper.
LocateUpper ==
    /\ \E Z \in Heights :
          LET R == <<1, 2, 3, 4>>
          IN  out' = [op |-> "R_upper", R |-> R, Z |-> Z, Zmid |-> Zmid_of(Z),
                      R_upper |-> R_upper_of(R, Z)]
    /\ UNCHANGED <<obj, base, phase, call, heap>>

NextCalc ==
    \/ Decompose
    \/ FitOutside
    \/ LocateUpper
    \/ Clamp

SpecCalc == Init /\ [][NextCalc]_vars

\* ------------------------------------------- the comparison of the tests

\* assert_within_ten_percent(key, cdf_value, gq_value) of test_equilibrium.py:
\* whether its assertions pass.  With a smallest value of 0 and a difference
\* other than 0 the quotient is infinite and the assertion fails; otherwise the
\* test is difference / smallest_value < 0.5, that is 2 * difference < smallest.
assert_within_ten_percent(cdf_value, gq_value) ==
    LET difference == Abs(cdf_value - gq_value)
        smallest_value == Min(<<Abs(cdf_value), Abs(gq_value)>>)
    IN  IF smallest_value = 0
        THEN difference = 0
        ELSE 2 * difference < smallest_value

\* Values to compare: zero, pairs less than 10 percent apart, between 10 and 50
\* percent apart, at 10 and at 50 percent exactly, farther apart, and of
\* opposite signs.
CompareVals == {-20, -11, -10, 0, 10, 11, 12, 14, 15, 16, 20, 100, 109, 110, 111}

\* One call of the helper.
AssertWithinTenPercent ==
    /\ \E a \in CompareVals, b \in CompareVals :
          out' = [op |-> "assert_within_ten_percent", a |-> a, b |-> b,
                  passed |-> assert_within_ten_percent(a, b)]
    /\ UNCHANGED <<obj, base, phase, call, heap>>

NextCompare ==
    \/ AssertWithinTenPercent

SpecCompare == Init /\ [][NextCompare]_vars

\* ------------------------------------------------------------- defaults

ArrayKeys == {"cn", "dcndr", "sn", "dsndr"}

\* A module-level dictionary of arrays handed out by every call.
default_mxh_inputs_shared(h) ==
    IF Len(h.arrays) = 0
    THEN [ret |-> [cn |-> 1, dcndr |-> 2, sn |-> 3, dsndr |-> 4],
          arrays |-> <<Zeros, Zeros, Zeros, Zeros>>]
    ELSE [ret |-> [cn |-> 1, dcndr |-> 2, sn |-> 3, dsndr |-> 4],
          arrays |-> h.arrays]

\* default_mxh_inputs(): four calls of np.zeros(n_moments), each a new array, in
\* the order cn, dcndr, sn, dsndr; the dictionary returned refers to them.
default_mxh_inputs(h) ==
    LET k == Len(h.arrays)
    IN  [ret |-> [cn |-> k + 1, dcndr |-> k + 2, sn |-> k + 3, dsndr |-> k + 4],
         arrays |-> h.arrays \o <<Zeros, Zeros, Zeros, Zeros>>]

\* The arrays a dictionary or an object holds, by value.
Values(h, c) == [key \in ArrayKeys |-> h.arrays[c[key]]]

\* The number of calls of default_mxh_inputs and of the constructor in a
\* behaviour.
MaxCalls == 3

Calls == Len(heap.dicts) + Len(heap.objs)

Record(name, kind, index, ret) ==
    [op |-> name, target |-> <<kind, index>>, ret |-> ret]

\* d = default_mxh_inputs()
DefaultInputs ==
    /\ Calls < MaxCalls
    /\ LET r == default_mxh_inputs(heap)
       IN  /\ heap' = [heap EXCEPT !.arrays = r.arrays, !.dicts = Append(@, r.ret)]
           /\ out' = Record("default_mxh_inputs", "dict", Len(heap.dicts) + 1,
                            [key \in ArrayKeys |-> r.arrays[r.ret[key]]])
    /\ UNCHANGED <<obj, base, phase, call>>

\* LocalGeometryMXH(): __init__ without arguments calls default(), which passes
\* default_mxh_inputs() to the base class; the object holds those arrays.
ConstructDefault ==
    /\ Calls < MaxCalls
    /\ LET r == default_mxh_inputs(heap)
       IN  /\ heap' = [heap EXCEPT !.arrays = r.arrays,
                                   !.objs = Append(@, [refs |-> r.ret, from |-> 0])]
           /\ out' = Record("construct", "obj", Len(heap.objs) + 1, <<>>)
    /\ UNCHANGED <<obj, base, phase, call>>

\* LocalGeometryMXH(d) for a dictionary d that default_mxh_inputs returned: the
\* base class stores the entries of d as the attributes, the arrays included.
ConstructFromDict ==
    /\ Calls < MaxCalls
    /\ \E d \in 1..Len(heap.dicts) :
          /\ heap' = [heap EXCEPT !.objs = Append(@, [refs |-> heap.dicts[d], from |-> d])]
          /\ out' = Record("construct", "obj", Len(heap.objs) + 1, <<>>)
    /\ UNCHANGED <<obj, base, phase, call>>

\* d[key][1] = value for a dictionary that default_mxh_inputs returned.
DictWrite ==
    /\ \E d \in 1..Len(heap.dicts), key \in {"cn", "sn"}, value \in SetterVals :
          /\ heap' = [heap EXCEPT !.arrays[heap.dicts[d][key]] = Put(@, 1, value)]
          /\ out' = Record("dict_write", "dict", d, <<>>)
    /\ UNCHANGED <<obj, base, phase, call>>

\* o.delta = value and o.zeta = value for a constructed object o: the setters
\* write into the array o.sn refers to.
ObjectSet ==
    /\ \E o \in 1..Len(heap.objs), value \in SetterVals, name \in {"delta", "zeta"} :
          LET sn == heap.arrays[heap.objs[o].refs.sn]
              after == IF name = "delta" THEN set_delta([sn |-> sn], value)
                                        ELSE set_zeta([sn |-> sn], value)
          IN  /\ heap' = [heap EXCEPT !.arrays[heap.objs[o].refs.sn] = after.sn]
              /\ out' = Record(name, "obj", o, <<>>)
    /\ UNCHANGED <<obj, base, phase, call>>

NextDefaults ==
    \/ DefaultInputs
    \/ ConstructDefault
    \/ ConstructFromDict
    \/ DictWrite
    \/ ObjectSet

SpecDefaults == Init /\ [][NextDefaults]_vars

\* ------------------------------------------------- properties of the fit

\* The slice of a solution vector that holds dsndr.
dsndr_of(x) == Slice(x, n_moments + 3, Len(x))

\* C1: after a call of _set_shape_coefficients that returned without raising,
\* the stored dsndr[0] is 0, whatever the solver returned for that component.
C1_DsndrZeroAfterFit == phase = "Converged" => At(obj.dsndr, 0) = 0

\* A fit has returned whose solution vector holds a non-zero dsndr[0].
C1_Witness ==
    /\ phase = "Converged"
    /\ At(dsndr_of(call.fits.x), 0) # 0
    /\ At(obj.dsndr, 0) = 0

\* C2, as the specification states it: when the solver reports failure the call
\* raises an error that carries the solver's message and the final cost.
C2_ErrorCarriesMessageAndCost ==
    (call.solved /\ ~call.fits.success) =>
        /\ call.exc.raised
        /\ call.exc.has_message /\ call.exc.message = call.fits.message
        /\ call.exc.has_cost /\ call.exc.cost = call.fits.cost

\* C2: when the solver reports failure the call raises an Exception whose text
\* carries the solver's message, and not the cost; the call does not return and
\* gives no poor-fit warning.
C2_ErrorCarriesMessage ==
    (call.solved /\ ~call.fits.success) =>
        /\ phase = "Failed"
        /\ call.exc.raised /\ call.exc.type = "Exception"
        /\ call.exc.has_message /\ call.exc.message = call.fits.message
        /\ ~call.exc.has_cost
        /\ ~call.returned /\ ~call.warned

\* The solver reported failure with its message "maxfev", and the call raised.
C2_Witness ==
    /\ call.solved /\ ~call.fits.success
    /\ call.fits.message = "maxfev"
    /\ call.exc.raised

\* The shear values a solution vector holds, as the call stores them.
stored_shear(o) == <<o.shift, o.s_kappa, o.dZ0dr, o.dcndr, o.dsndr>>

shear_of(x) ==
    <<At(x, 0), At(x, 1), At(x, 2), Slice(x, 3, n_moments + 3), Put(dsndr_of(x), 0, 0)>>

\* C3: when the solver reports success the poor-fit warning is given exactly
\* when the cost exceeds 0.1, and with or without it the call completes: the
\* shear values are stored from the solution and nothing is raised.
C3_WarningIffCostAboveThreshold ==
    (call.solved /\ call.fits.success) =>
        /\ call.warned <=> (call.fits.cost > cost_threshold)
        /\ phase = "Converged"
        /\ call.returned /\ ~call.exc.raised
        /\ stored_shear(obj) = shear_of(call.fits.x)

\* A fit completed with a warning, and stored a non-zero shift from the solution.
C3_Witness ==
    /\ call.solved /\ call.fits.success
    /\ call.warned /\ call.fits.cost > cost_threshold
    /\ obj.shift = At(call.fits.x, 0) /\ obj.shift # 0

\* What holds in each phase of a call.
PhaseInv ==
    /\ phase \in {"Initialized", "Fitting", "Converged", "Failed"}
    /\ phase = "Initialized" => call = NoCall
    /\ phase = "Fitting" =>
          call.nsolve = 1 /\ ~call.solved /\ ~call.returned /\ ~call.exc.raised
    /\ phase = "Converged" =>
          /\ call.nsolve = 1 /\ call.solved /\ call.fits.success
          /\ call.returned /\ ~call.exc.raised
          /\ stored_shear(obj) = shear_of(call.fits.x)
    /\ phase = "Failed" =>
          /\ call.nsolve = 1 /\ call.solved /\ ~call.fits.success
          /\ call.exc.raised /\ ~call.returned

\* The phase changes a step may make.
PhaseStep ==
    /\ phase' # phase =>
          \/ phase # "Fitting" /\ phase' = "Fitting"
          \/ phase = "Fitting" /\ phase' \in {"Converged", "Failed"}
    /\ (phase = "Fitting" /\ phase' = "Fitting") => call' = call
    /\ phase' \in {"Converged", "Failed"} => phase = "Fitting" \/ call' = call

\* C4: a call goes from its start to Fitting and from Fitting to exactly one of
\* Converged (success, shear stored, call returns) and Failed (failure, exception
\* raised); the solver is called once per call, also after a failure.
C4_Lifecycle == []PhaseInv /\ [][PhaseStep]_vars

\* A call failed on an object that an earlier call had converged on.
C4_Witness ==
    /\ phase = "Failed"
    /\ call.nsolve = 1
    /\ obj.dthetaR_dr # <<>>

\* The state a call stores: the shape it computes, and all of it.
stored_shape(o) == <<o.kappa, o.cn, o.sn, o.theta>>

stored_state(o) == stored_shape(o) \o stored_shear(o)

\* The object as constructed, after the same call up to the solver: the latest
\* call running alone.
Alone == set_shape(base, call.R, call.Z, Qc(call.quad), Qs(call.quad))

\* C8: what a call stores is what the same call stores on the object as it was
\* constructed: the shape it computes, what the solver is given to work on, and,
\* when the solver succeeds, every stored value.
C8_FitIsolated ==
    /\ phase \in {"Fitting", "Failed"} =>
          /\ stored_shape(obj) = stored_shape(Alone)
          /\ SolverView(obj) = SolverView(Alone)
    /\ phase = "Converged" =>
          stored_state(obj) = stored_state(end_object(Alone, call.fits))

\* A call is at the solver on an object that holds the shear of an earlier fit,
\* different from the shear it was constructed with.
C8_Witness ==
    /\ phase = "Fitting"
    /\ obj.dthetaR_dr # <<>>
    /\ stored_shear(obj) # stored_shear(base)
    /\ stored_shape(obj) = stored_shape(Alone)

StrictlyIncreasing(s) == \A i \in 1..(Len(s) - 1) : s[i] < s[i + 1]

\* C9: for every contour that runs once around the axis, the stored theta is
\* strictly increasing and its first element lies in [-pi, pi).
C9_ThetaIncreasing ==
    phase # "Initialized" =>
        /\ StrictlyIncreasing(obj.theta)
        /\ -Pi <= At(obj.theta, 0) /\ At(obj.theta, 0) < Pi

\* C10, as the specification states it: when the first theta exceeds pi every
\* element of theta and of thetaR is shifted by -2 pi, else none is.
C10_WholeSequenceShifted ==
    phase # "Initialized" =>
        LET t == theta_branch(obj, call.R, call.Z)
            tR == thetaR_branch(obj, call.R, call.Z)
        IN  IF At(t, 0) > Pi
            THEN /\ \A i \in 1..Len(t) : call.theta[i] = t[i] - 2 * Pi
                 /\ \A i \in 1..Len(tR) : call.thetaR[i] = tR[i] - 2 * Pi
            ELSE call.theta = t /\ call.thetaR = tR

\* C10: when the first theta exceeds pi, the first element of theta and the first
\* element of thetaR are shifted by -2 pi and every other element is left as it
\* is; else none is shifted.
C10_FirstPointShifted ==
    phase # "Initialized" =>
        LET t == theta_branch(obj, call.R, call.Z)
            tR == thetaR_branch(obj, call.R, call.Z)
        IN  IF At(t, 0) > Pi
            THEN /\ At(call.theta, 0) = At(t, 0) - 2 * Pi
                 /\ At(call.thetaR, 0) = At(tR, 0) - 2 * Pi
                 /\ \A i \in 2..Len(t) : call.theta[i] = t[i]
                 /\ \A i \in 2..Len(tR) : call.thetaR[i] = tR[i]
            ELSE call.theta = t /\ call.thetaR = tR

\* A call on a contour whose first point maps to a theta above pi.
C10_Witness ==
    /\ phase # "Initialized"
    /\ At(theta_branch(obj, call.R, call.Z), 0) > Pi
    /\ At(call.theta, 0) < 0

\* The four moment arrays of an object have length n_moments.
MomentLengths(o) ==
    /\ Len(o.cn) = n_moments
    /\ Len(o.sn) = n_moments
    /\ Len(o.dcndr) = n_moments
    /\ Len(o.dsndr) = n_moments

MomentLengthsInUse == MomentLengths(obj)

\* C21: the vector handed to least_squares has 3 + 2*n_moments = 11 components,
\* the first the shift argument of the call (0.0 by default) and all others 0.
C21_InitialVector ==
    call.nsolve > 0 =>
        /\ Len(call.params) = 3 + 2 * n_moments
        /\ Len(call.params) = 11
        /\ At(call.params, 0) = call.shift
        /\ \A k \in 1..10 : At(call.params, k) = 0

\* The solver was called with a shift guess other than the default.
C21_Witness ==
    /\ phase = "Fitting"
    /\ call.nsolve > 0
    /\ call.shift # 0
    /\ At(call.params, 0) = call.shift

\* The solver's solution with its dsndr[0] component set to 0.
solution_forced == Put(call.fits.x, n_moments + 3, 0)

\* C23: the layout is the same in both directions.  When a fit has returned,
\* what get_RZ_derivatives unpacks from the solution (dsndr[0] set to 0) is what
\* the fit stored, component by component (0 shift, 1 s_kappa, 2 dZ0dr, 3..6
\* dcndr, 7..10 dsndr), and get_RZ_derivatives without params returns what it
\* returns with that vector, at the fitting grid and at another theta.
C23_SameLayout ==
    phase = "Converged" =>
        /\ obj.shift = At(solution_forced, 0)
        /\ obj.s_kappa = At(solution_forced, 1)
        /\ obj.dZ0dr = At(solution_forced, 2)
        /\ \A k \in 0..(n_moments - 1) :
              /\ At(obj.dcndr, k) = At(solution_forced, 3 + k)
              /\ At(obj.dsndr, k) = At(solution_forced, 3 + n_moments + k)
        /\ shear_used(obj, solution_forced) = shear_used(obj, NoParams)
        /\ \A theta \in ThetaArgs(obj), normalised \in BOOLEAN :
              get_RZ_derivatives(obj, theta, NoParams, normalised).ret
              = get_RZ_derivatives(obj, theta, solution_forced, normalised).ret

\* A fit has returned a solution with non-zero components, dsndr[0] among them,
\* in which dcndr and dsndr differ and which changes the derivatives.
C23_Witness ==
    /\ phase = "Converged"
    /\ At(call.fits.x, n_moments + 3) # 0
    /\ obj.dcndr # obj.dsndr
    /\ obj.shift # 0
    /\ get_RZ_derivatives(obj, obj.theta, NoParams, TRUE).ret
       # get_RZ_derivatives(obj, obj.theta, initial_params(0), TRUE).ret

\* The attributes written before the solver is called, and those written after
\* it has succeeded.
shape_fields(o) ==
    <<o.kappa, o.cn, o.sn, o.theta, o.theta_eq, o.thetaR, o.dthetaR_dtheta, o.R, o.Z>>

shear_fields(o) == <<o.shift, o.s_kappa, o.dZ0dr, o.dcndr, o.dsndr, o.dthetaR_dr>>

\* The steps of one call: to the solver, within the solver, and from it.
WriteOrderStep ==
    \* up to the solver: the shape is the new contour's, the shear is untouched
    /\ (phase # "Fitting" /\ phase' = "Fitting") =>
          /\ shear_fields(obj') = shear_fields(obj)
          /\ obj'.kappa = kappa_of(obj, call'.Z)
          /\ obj'.theta = call'.theta /\ obj'.theta_eq = call'.theta
          /\ obj'.cn = cn_of(call'.theta, call'.thetaR, Qc(call'.quad))
          /\ obj'.sn = sn_of(call'.theta, call'.thetaR, Qs(call'.quad))
          /\ obj'.thetaR = get_thetaR(obj', call'.theta)
          /\ obj'.dthetaR_dtheta = get_dthetaR_dtheta(obj', call'.theta)
          /\ <<obj'.R, obj'.Z>> = get_flux_surface(obj', call'.theta, TRUE).ret
    \* while the solver runs nothing is written
    /\ (phase = "Fitting" /\ phase' = "Fitting") => obj' = obj
    \* failure: nothing more is written
    /\ (phase = "Fitting" /\ phase' = "Failed") =>
          /\ shear_fields(obj') = shear_fields(obj)
          /\ shape_fields(obj') = shape_fields(obj)
    \* success: the shear is written, the shape stays
    /\ (phase = "Fitting" /\ phase' = "Converged") =>
          /\ shape_fields(obj') = shape_fields(obj)
          /\ stored_shear(obj') = shear_of(call'.fits.x)
          /\ obj'.dthetaR_dr = get_dthetaR_dr(obj'.theta, obj'.dcndr, obj'.dsndr)

\* C24: in a call kappa, cn, sn, theta, theta_eq, thetaR, dthetaR_dtheta, R and Z
\* are written from the new contour before the solver runs, and shift, s_kappa,
\* dZ0dr, dcndr, dsndr and dthetaR_dr only after it has reported success: after
\* a failure the shear is what it was before the call and the shape is the new
\* contour's.
C24_WriteOrder == [][WriteOrderStep]_vars

\* A call has failed on an object that holds the shear of an earlier fit, not
\* that of the failed solve, and the shape of the failed call's contour.
C24_Witness ==
    /\ phase = "Failed"
    /\ shear_fields(obj) # shear_fields(base)
    /\ obj.shift # At(call.fits.x, 0)
    /\ obj.kappa = kappa_of(obj, call.Z)
    /\ obj.theta = call.theta
    /\ Len(obj.dthetaR_dr) = Len(obj.theta)
    /\ stored_shear(obj) # shear_of(call.fits.x)

\* The surface the fitted object regenerates on its own grid, in the units of
\* the contour.
Regenerated == get_flux_surface(obj, obj.theta, FALSE).ret

ElongationOfContour ==
    phase = "Converged" =>
        /\ obj.kappa * 2 * obj.r_minor = Max(call.Z) - Min(call.Z)
        /\ obj.Z0 = base.Z0
        /\ Max(Regenerated[2]) + Min(Regenerated[2]) = 2 * obj.Z0 * obj.a_minor

\* ------------------------------------ properties of the object in use

\* The object with its stored shear wiped.
shear_wiped(o) ==
    [o EXCEPT !.shift = 0, !.s_kappa = 0, !.dZ0dr = 0, !.dcndr = Zeros, !.dsndr = Zeros]

stored_params(o) == <<o.cn, o.sn, o.dcndr, o.dsndr, o.kappa, o.shift, o.s_kappa, o.dZ0dr>>

\* C5: a call of get_RZ_derivatives with a params vector returns what it returns
\* on the object with its stored shear wiped, with dZdr and dRdr computed from
\* the values in params; and it leaves the stored shift, s_kappa, dZ0dr, dcndr,
\* dsndr, cn, sn and kappa as they were.
ExplicitParamsStep ==
    (out'.op = "get_RZ_derivatives" /\ out'.params # NoParams) =>
        LET p == out'.params
            th == out'.theta
        IN  /\ out'.ret = get_RZ_derivatives(shear_wiped(obj), th, p,
                                             out'.normalised).ret
            /\ out'.ret[4] = get_dZdr(obj, th, At(p, 2), At(p, 1))
            /\ out'.ret[2] = get_dRdr(obj, At(p, 0), get_thetaR(obj, th),
                                      get_dthetaR_dr(th, Slice(p, 3, n_moments + 3),
                                                     dsndr_of(p)))
            /\ stored_params(obj') = stored_params(obj)

C5_ExplicitParamsOnly == [][ExplicitParamsStep]_vars

\* get_RZ_derivatives has returned from a call with a params vector whose shear
\* values all differ from the stored ones.
C5_Witness ==
    /\ out.op = "get_RZ_derivatives"
    /\ out.params # NoParams
    /\ At(out.params, 0) # obj.shift
    /\ At(out.params, 1) # obj.s_kappa
    /\ At(out.params, 2) # obj.dZ0dr
    /\ Slice(out.params, 3, n_moments + 3) # obj.dcndr
    /\ dsndr_of(out.params) # obj.dsndr

\* C6, as the specification states it: once a fit has completed, no operation
\* other than a new fit changes the stored shape parameters.
C6_ImmutableAfterFit ==
    [][phase = "Converged" => stored_params(obj') = stored_params(obj)]_vars

\* What an operation other than a fit may change of the stored shape parameters.
UseStep ==
    LET same_but(sn, dsndr) == obj' = [obj EXCEPT !.sn = sn, !.dsndr = dsndr]
    IN  CASE out'.op = "set_delta" ->
                same_but(Put(obj.sn, 1, At(obj'.sn, 1)), obj.dsndr)
          [] out'.op = "set_zeta" ->
                same_but(Put(obj.sn, 2, At(obj'.sn, 2)), obj.dsndr)
          [] out'.op = "set_s_delta" ->
                same_but(obj.sn, Put(obj.dsndr, 1, At(obj'.dsndr, 1)))
          [] out'.op = "set_s_zeta" ->
                same_but(obj.sn, Put(obj.dsndr, 2, At(obj'.dsndr, 2)))
          [] OTHER -> stored_params(obj') = stored_params(obj)

\* C6: once a fit has completed, get_RZ_derivatives and get_flux_surface change
\* no stored shape parameter, and the setters of delta, zeta, s_delta and s_zeta
\* change sn[1], sn[2], dsndr[1] and dsndr[2], each its own and nothing else.
C6_OnlySettersChangeParams == [][phase = "Converged" => UseStep]_vars

\* After a completed fit the setter of delta has run, and sn is no longer what
\* the fit stored.
C6_Witness ==
    /\ phase = "Converged"
    /\ out.op = "set_delta"
    /\ obj.sn # sn_of(call.theta, call.thetaR, Qs(call.quad))

\* C7: a call of get_flux_surface changes neither the object nor the caller's
\* theta, and a call that repeats the one before it, with the same theta and the
\* same normalised flag, returns the same (R, Z).
FluxSurfaceStep ==
    out'.op = "get_flux_surface" =>
        /\ obj' = obj
        /\ out'.theta_after = out'.theta
        /\ out'.again => out'.ret = out.ret

C7_FluxSurfaceIdempotent == [][FluxSurfaceStep]_vars

\* get_flux_surface has been called twice in a row with the same arguments, in
\* physical units (the branch that scales in place).
C7_Witness ==
    /\ out.op = "get_flux_surface"
    /\ out.again
    /\ ~out.normalised

\* C15: get_flux_surface(theta) returns one R and one Z for each element of
\* theta, whatever its length: R = Rmaj + rho*cos(thetaR) and
\* Z = Z0 + kappa*rho*sin(theta) at that element when normalised, and a_minor
\* times those values when not.
C15_FluxSurfaceFormula ==
    out.op = "get_flux_surface" =>
        LET scale == IF out.normalised THEN 1 ELSE obj.a_minor
        IN  /\ Len(out.ret) = 2
            /\ Len(out.ret[1]) = Len(out.theta)
            /\ Len(out.ret[2]) = Len(out.theta)
            /\ \A i \in 1..Len(out.theta) :
                  LET t == out.theta[i]
                      tR == get_thetaR(obj, <<t>>)[1]
                  IN  /\ out.ret[1][i] = scale * (obj.Rmaj + obj.rho * Cos(tR))
                      /\ out.ret[2][i] = scale * (obj.Z0 + obj.kappa * obj.rho * Sin(t))

\* get_flux_surface has returned in physical units for a theta that is not the
\* fitting grid, on an object with non-zero moments and elongation other than 1.
C15_Witness ==
    /\ out.op = "get_flux_surface"
    /\ ~out.normalised
    /\ obj.a_minor # 1
    /\ Len(out.theta) # Len(obj.theta)
    /\ obj.cn # Zeros
    /\ obj.kappa # 1
    /\ \E i \in 1..Len(out.theta) : out.ret[2][i] # 0

\* A step of an evaluation method: every attribute of the object is as before
\* and the caller's theta is as it was passed.
EvaluationStep ==
    /\ out'.op \in Accessors \cup {"get_RZ_derivatives", "get_flux_surface"}
    /\ obj' = obj
    /\ out'.theta_after = out'.theta

\* C22: no call of get_thetaR, get_dthetaR_dtheta, get_d2thetaR_dtheta2,
\* get_dthetaR_dr, get_d2thetaR_drdtheta, get_RZ_derivatives,
\* get_RZ_second_derivatives, get_flux_surface or of a get_dR*/get_dZ* helper
\* changes an attribute of the object or its theta argument.
C22_AccessorsDoNotMutate == [][EvaluationStep]_vars

\* get_RZ_second_derivatives has returned, for a theta that is not the fitting
\* grid, on a fitted object with non-zero moments and shear.
C22_Witness ==
    /\ out.op = "get_RZ_second_derivatives"
    /\ obj.theta # <<>>
    /\ out.theta # obj.theta
    /\ obj.cn # Zeros /\ obj.dcndr # Zeros
    /\ out.ret # get_RZ_second_derivatives(base, out.theta, out.normalised)
    /\ obj.thetaR # get_thetaR(obj, out.theta)

\* ---------------------------------------- derivatives of the surface

\* A quantity together with its derivative along one direction (theta or r):
\* v is the value and d = <<a, b>> the derivative a + b*(pi/2).  For an angle
\* v counts quarter turns and d is the derivative of the angle in radians.
Dual(v, a, b) == [v |-> v, d |-> <<a, b>>]

DAdd(x, y) == [v |-> x.v + y.v, d |-> <<x.d[1] + y.d[1], x.d[2] + y.d[2]>>]

\* k * x for a constant integer k.
DScale(k, x) == [v |-> k * x.v, d |-> <<k * x.d[1], k * x.d[2]>>]

\* x * y for two plain quantities: (xy)' = x'y + xy'.
DMul(x, y) ==
    [v |-> x.v * y.v,
     d |-> <<x.d[1] * y.v + x.v * y.d[1], x.d[2] * y.v + x.v * y.d[2]>>]

\* c * y for an angle c and a plain quantity y whose derivative is an integer:
\* the product is an angle; c counts quarter turns, so c * y' is c.v * y' * (pi/2).
DMulAngle(c, y) ==
    [v |-> c.v * y.v,
     d |-> <<c.d[1] * y.v, c.d[2] * y.v + c.v * y.d[1]>>]

\* cos and sin of an angle: cos' = -sin, sin' = cos.
DCos(x) == [v |-> Cos(x.v), d |-> <<(-Sin(x.v)) * x.d[1], (-Sin(x.v)) * x.d[2]>>]

DSin(x) == [v |-> Sin(x.v), d |-> <<Cos(x.v) * x.d[1], Cos(x.v) * x.d[2]>>]

\* The expression of get_thetaR on quantities with derivatives.
DthetaR(cn, sn, th) ==
    LET term == [k \in 1..n_moments |->
                    DAdd(DMulAngle(cn[k], DCos(DScale(n[k], th))),
                         DMulAngle(sn[k], DSin(DScale(n[k], th))))]
    IN  DAdd(th, DAdd(DAdd(term[1], term[2]), DAdd(term[3], term[4])))

\* The expressions of get_flux_surface, in normalised units, on quantities with
\* derivatives: R = Rmaj + rho * cos(thetaR), Z = Z0 + kappa * rho * sin(theta).
DSurface(q, th) ==
    [R |-> DAdd(q.Rmaj, DMul(q.rho, DCos(DthetaR(q.cn, q.sn, th)))),
     Z |-> DAdd(q.Z0, DMul(DMul(q.kappa, q.rho), DSin(th)))]

\* The surface and its derivative in theta at the angle t: only theta varies.
SurfaceAlongTheta(o, t) ==
    DSurface([Rmaj |-> Dual(o.Rmaj, 0, 0), Z0 |-> Dual(o.Z0, 0, 0),
              kappa |-> Dual(o.kappa, 0, 0), rho |-> Dual(o.rho, 0, 0),
              cn |-> [k \in 1..n_moments |-> Dual(o.cn[k], 0, 0)],
              sn |-> [k \in 1..n_moments |-> Dual(o.sn[k], 0, 0)]],
             Dual(t, 1, 0))

\* The surface and its derivative in r at the angle t, for the shear values s:
\* dRmaj/dr = shift, dZ0/dr = dZ0dr, dkappa/dr = s_kappa * kappa / r,
\* dcn/dr = dcndr, dsn/dr = dsndr and dr/dr = 1, with r = rho.
SurfaceAlongR(o, t, s) ==
    DSurface([Rmaj |-> Dual(o.Rmaj, s.shift, 0), Z0 |-> Dual(o.Z0, s.dZ0dr, 0),
              kappa |-> Dual(o.kappa, (s.s_kappa * o.kappa) \div o.rho, 0),
              rho |-> Dual(o.rho, 1, 0),
              cn |-> [k \in 1..n_moments |-> Dual(o.cn[k], s.dcndr[k], 0)],
              sn |-> [k \in 1..n_moments |-> Dual(o.sn[k], s.dsndr[k], 0)]],
             Dual(t, 0, 0))

\* C11: what get_RZ_derivatives returns are the derivatives of the surface of
\* get_flux_surface: dRdtheta and dZdtheta its derivative in theta (times
\* a_minor in physical units), dRdr and dZdr its derivative in r.
C11_DerivativesOfSurface ==
    out.op = "get_RZ_derivatives" =>
        LET s == shear_used(obj, out.params)
            scale == IF out.normalised THEN 1 ELSE obj.a_minor
        IN  \A i \in 1..Len(out.theta) :
               LET t == out.theta[i]
                   ft == SurfaceAlongTheta(obj, t)
                   fr == SurfaceAlongR(obj, t, s)
               IN  /\ ft.R.v = get_flux_surface(obj, out.theta, TRUE).ret[1][i]
                   /\ ft.Z.v = get_flux_surface(obj, out.theta, TRUE).ret[2][i]
                   /\ out.ret[1][i] = DScale(scale, ft.R).d
                   /\ out.ret[3][i] = scale * ft.Z.d[1] /\ ft.Z.d[2] = 0
                   /\ out.ret[2][i] = fr.R.d[1] /\ fr.R.d[2] = 0
                   /\ out.ret[4][i] = fr.Z.d[1] /\ fr.Z.d[2] = 0

\* get_RZ_derivatives has returned, for an object with non-zero moments and
\* non-zero stored shear, derivatives in r and in theta that are not all zero.
C11_Witness ==
    /\ out.op = "get_RZ_derivatives"
    /\ out.params = NoParams
    /\ obj.cn # Zeros /\ obj.dcndr # Zeros /\ obj.s_kappa # 0
    /\ \E i \in 1..Len(out.theta) :
          /\ out.ret[1][i][2] # 0
          /\ out.ret[2][i] # obj.shift + Cos(out.theta[i])

\* What the derivative methods return for a parameter vector.
shear_outputs(o, theta, params, normalised) ==
    LET s == shear_used(o, params)
    IN  [dthetaR_dr |-> get_dthetaR_dr(theta, s.dcndr, s.dsndr),
         d2thetaR_drdtheta |-> get_d2thetaR_drdtheta(theta, s.dcndr, s.dsndr),
         RZ |-> get_RZ_derivatives(o, theta, params, normalised).ret]

\* params with one component replaced (0-based index k).
with_component(params, k, v) == Put(params, k, v)

\* C20: dsndr[0], component n_moments + 3 of the parameter vector, has no
\* effect: whatever value replaces it, get_dthetaR_dr, get_d2thetaR_drdtheta and
\* the four arrays of get_RZ_derivatives are the same at every theta.
C20_DsndrZeroHasNoEffect ==
    (out.op = "get_RZ_derivatives" /\ out.params # NoParams) =>
        /\ out.ret = shear_outputs(obj, out.theta, out.params, out.normalised).RZ
        /\ \A v \in -1..1 :
              shear_outputs(obj, out.theta,
                            with_component(out.params, n_moments + 3, v),
                            out.normalised)
              = shear_outputs(obj, out.theta, out.params, out.normalised)

\* get_RZ_derivatives has returned for a parameter vector whose dsndr[0] is not
\* zero and whose dsndr[1] does change the result.
C20_Witness ==
    /\ out.op = "get_RZ_derivatives"
    /\ out.params # NoParams
    /\ At(out.params, n_moments + 3) # 0
    /\ shear_outputs(obj, out.theta,
                     with_component(out.params, n_moments + 4, 0), out.normalised)
       # shear_outputs(obj, out.theta, out.params, out.normalised)
    /\ \E i \in 1..Len(out.theta) : out.ret[2][i] # 0

\* --------------------------------------- properties of delta and s_delta

\* s_delta assigned right after delta reads back the value assigned.
DeltaThenSDelta ==
    (out.op = "set_delta" /\ out'.op = "set_s_delta") =>
        s_delta_fifths(obj') = out'.value

\* delta assigned right after s_delta = v, on an object whose delta was d0:
\* dsndr[1] stays and s_delta reads v * sqrt(1 - d^2) / sqrt(1 - d0^2).
SDeltaThenDelta ==
    (out.op = "set_s_delta" /\ out'.op = "set_delta") =>
        /\ obj'.dsndr = obj.dsndr
        /\ s_delta_fifths(obj') * sqrt_one_minus_square(delta_fifths(obj))
           = out.value * sqrt_one_minus_square(out'.value)

\* The squares of the new and of the earlier delta differ.
SquaresDiffer == out'.value * out'.value # delta_fifths(obj) * delta_fifths(obj)

\* C25, as the specification states it: the two assignments do not commute;
\* after delta then s_delta = v, s_delta reads v; after s_delta = v then delta,
\* dsndr[1] is unchanged and s_delta reads v*sqrt(1 - d^2)/sqrt(1 - d0^2), which
\* differs from v whenever d^2 # d0^2.
C25_DoNotCommute ==
    [][/\ DeltaThenSDelta
       /\ SDeltaThenDelta
       /\ (out.op = "set_s_delta" /\ out'.op = "set_delta" /\ SquaresDiffer)
             => s_delta_fifths(obj') # out.value]_vars

\* C25, amended: the same, where the reading differs from v whenever
\* d^2 # d0^2 and v is not 0.
C25_DoNotCommuteUnlessZero ==
    [][/\ DeltaThenSDelta
       /\ SDeltaThenDelta
       /\ (out.op = "set_s_delta" /\ out'.op = "set_delta" /\ SquaresDiffer)
             => (s_delta_fifths(obj') # out.value <=> out.value # 0)]_vars

\* delta was assigned after a non-zero s_delta on an object with another delta
\* and rho other than 1, and s_delta no longer reads the value assigned.
C25_Witness ==
    /\ out.op = "set_delta"
    /\ obj.rho # 1
    /\ delta_fifths(obj) # 0
    /\ At(obj.dsndr, 1) # 0
    /\ s_delta_fifths(obj) \notin SDeltaVals

\* ------------------------------------- properties of single computations

\* The object with the moments of the latest decomposition stored.
WithMoments == [obj EXCEPT !.cn = out.cn, !.sn = out.sn]

\* C12: when the misfit is a harmonic series of order below n_moments, with any
\* constant term, get_thetaR with the computed cn and sn gives theta plus the
\* misfit at every angle.
C12_ReconstructsSeries ==
    out.op = "moments" =>
        \A t \in 0..3 :
            get_thetaR(WithMoments, <<t>>) = <<t + series(out.c, out.s, t)>>

\* The same for the misfits whose constant term is zero.
ReconstructsZeroMeanSeries ==
    (out.op = "moments" /\ At(out.c, 0) = 0) =>
        \A t \in 0..3 :
            get_thetaR(WithMoments, <<t>>) = <<t + series(out.c, out.s, t)>>

\* What get_thetaR gives for any series: theta plus the misfit plus its
\* constant term once more.
ReconstructsWithDoubledMean ==
    out.op = "moments" =>
        \A t \in 0..3 :
            get_thetaR(WithMoments, <<t>>)
                = <<t + series(out.c, out.s, t) + At(out.c, 0)>>

\* The points of a contour where |Z - Zmid| is largest.
Farthest(Z, Zmid) ==
    {i \in 1..Len(Z) : \A j \in 1..Len(Z) : Abs(Z[i] - Zmid) >= Abs(Z[j] - Zmid)}

\* C18: R_upper is the R of a contour point where |Z - Zmid| is largest, also
\* when Zmid is not zero.
C18_RUpperAtExtremum ==
    out.op = "R_upper" =>
        \E i \in Farthest(out.Z, out.Zmid) : out.R_upper = out.R[i]

\* R_upper was located on a contour whose midplane is not zero and on which the
\* largest |Z| is not at the first point.
C18_Witness ==
    /\ out.op = "R_upper"
    /\ out.Zmid # 0
    /\ out.R_upper # out.R[1]
    /\ Farthest(out.Z, out.Zmid) # 1..Len(out.Z)

\* v is replaced by the nearer of +1 and -1 exactly when it is within tol of it,
\* and is left as it is otherwise.
ClampedWithin(v, result, tol) ==
    /\ result = Unit <=> Abs(v - Unit) <= tol
    /\ result = -Unit <=> Abs(v + Unit) <= tol
    /\ (Abs(v - Unit) > tol /\ Abs(v + Unit) > tol) => result = v

\* C19, as the specification states it: the height is clamped if and only if it
\* is within 1e-8 of +1 or -1, the radius if and only if within 1e-4.
C19_ClampWithinAtol ==
    out.op = "clamp" =>
        /\ ClampedWithin(out.v, out.height, 10)
        /\ ClampedWithin(out.v, out.radius, 100000)

\* C19, amended: the tolerance of np.isclose is atol + rtol * |target| with the
\* default rtol = 1e-5, so the height is clamped if and only if it is within
\* 1e-8 + 1e-5 of +1 or -1 and the radius if and only if within 1e-4 + 1e-5.
C19_ClampWithinAtolPlusRtol ==
    out.op = "clamp" =>
        /\ ClampedWithin(out.v, out.height, 10010)
        /\ ClampedWithin(out.v, out.radius, 110000)

\* A value farther than 1e-8 from 1 was clamped as a height, and a value farther
\* than 1e-4 as a radius.
C19_Witness ==
    /\ out.op = "clamp"
    /\ Abs(out.v - Unit) > 100000
    /\ out.radius = Unit
    /\ out.height = out.v

\* C13: a call on a contour with a normalised radius outside [-1, 1] by more
\* than the clamp tolerance raises before anything is stored, and no attribute
\* is assigned a value computed from the undefined arccos.
C13_NumericFailureFatal ==
    out.op = "fit_outside" => out.raised /\ out.undefined = {}

\* ------------------------------------------------ properties of defaults

\* The dictionaries and objects that hold one of the arrays refs refers to.
Sharing(h, refs) ==
    {<<"dict", i>> : i \in {i \in 1..Len(h.dicts) :
                              \E k1, k2 \in ArrayKeys : h.dicts[i][k1] = refs[k2]}}
    \cup {<<"obj", j>> : j \in {j \in 1..Len(h.objs) :
                              \E k1, k2 \in ArrayKeys : h.objs[j].refs[k1] = refs[k2]}}

DefaultsStep ==
    \* every call returns zeros of length n_moments, in arrays nothing else holds
    /\ out'.op = "default_mxh_inputs" =>
          /\ \A key \in ArrayKeys : out'.ret[key] = Zeros /\ Len(out'.ret[key]) = n_moments
          /\ Sharing(heap', heap'.dicts[Len(heap'.dicts)]) = {out'.target}
    \* what an earlier call returned changes only by a write through that
    \* dictionary or through an object constructed from it
    /\ \A i \in 1..Len(heap.dicts) :
          Values(heap', heap.dicts[i]) # Values(heap, heap.dicts[i]) =>
             \/ out'.target = <<"dict", i>>
             \/ /\ out'.target[1] = "obj"
                /\ heap.objs[out'.target[2]].from = i
    \* what a default-constructed object holds changes only by its own setters
    /\ \A j \in 1..Len(heap.objs) :
          /\ heap.objs[j].from = 0
          /\ Values(heap', heap.objs[j].refs) # Values(heap, heap.objs[j].refs)
          => out'.target = <<"obj", j>>

\* C16: every call of default_mxh_inputs returns new arrays cn, dcndr, sn and
\* dsndr of four zeros; writing into the arrays of one returned dictionary, or
\* setting delta or zeta on an object, changes neither what another call
\* returned or returns later nor what another default-constructed object holds.
C16_DefaultsAreFresh == [][DefaultsStep]_vars

\* default_mxh_inputs has returned after an earlier dictionary and a
\* default-constructed object were written to.
C16_Witness ==
    /\ out.op = "default_mxh_inputs"
    /\ \E i \in 1..Len(heap.dicts) : heap.arrays[heap.dicts[i].sn] # Zeros
    /\ \E j \in 1..Len(heap.objs) :
          /\ heap.objs[j].from = 0
          /\ heap.arrays[heap.objs[j].refs.sn] # Zeros

\* ------------------------------------------ properties of the comparison

\* C26: the helper passes exactly when |a - b| is less than 10 percent of
\* min(|a|, |b|), or when min(|a|, |b|) is 0 and a equals b.
C26_PassesWithinTenPercent ==
    out.op = "assert_within_ten_percent" =>
        LET smallest == Min(<<Abs(out.a), Abs(out.b)>>)
        IN  out.passed <=> \/ 10 * Abs(out.a - out.b) < smallest
                           \/ smallest = 0 /\ out.a = out.b

\* What the helper tests is 50 percent.
PassesWithinFiftyPercent ==
    out.op = "assert_within_ten_percent" =>
        LET smallest == Min(<<Abs(out.a), Abs(out.b)>>)
        IN  out.passed <=> \/ 2 * Abs(out.a - out.b) < smallest
                           \/ smallest = 0 /\ out.a = out.b

====
